---- MODULE Spec2Model ----
(***************************************************************************)
(* Model of the pedal-training timing core: the GameLoop sequencer         *)
(* (js/game/gameLoop.js), the mode predicates (gameModes.js), the          *)
(* recorder's start/stop/sampling switch (telemetry part of                *)
(* js/input/inputHandler.js) and the browser scheduling they rely on       *)
(* (requestAnimationFrame, setTimeout, setInterval, performance.now).      *)
(*                                                                         *)
(* Time is an integer number of clock units.  Handlers run atomically and  *)
(* every clock read inside one handler returns the same value `now`.       *)
(* Each handler is an operator from a world record to a world record, so   *)
(* that the calls a handler makes compose in the order of the source.      *)
(***************************************************************************)
EXTENDS Integers, Sequences, FiniteSets, TLC

VARIABLES
    gameLoop,    \* the GameLoop object's fields
    telemetry,   \* the Telemetry object's recording flag and sampling interval
    config,      \* the Config fields the sequencer reads on every tick
    now,         \* performance.now()
    sinceFrame,  \* clock units since the last animation frame began
    rafQueue,    \* ids of update callbacks requested for the next frame
    frameQueue,  \* ids of the running frame's callbacks not yet invoked
    timers,      \* pending reflex-delay timeouts set by completeTransition
    caller,      \* the caller's last call on the loop, its startGame and pauseGame counts
    call,        \* the last call of a stateless helper: its name, arguments and result
    input,       \* the InputHandler object's fields
    gameScreen,  \* the progress values last handed to the GameScreen
    obs          \* observers of the inputs fed to the ticks (no code state)

vars == <<gameLoop, telemetry, config, now, sinceFrame, rafQueue,
          frameQueue, timers, caller, call, input, gameScreen, obs>>

----------------------------------------------------------------------------
(* Bounds of the model *)

MaxTime == 9
MaxFrameGap == 1
MaxTotalTargets == 2
MaxCalls == 2

(* The single-target scenario: valid_duration, the longest gap between two *)
(* ticks, and the time the scenario is followed for                         *)
ScenarioValidDuration == 4
ScenarioFrameGap == 2
ScenarioHorizon == 12

(* The time sessions started with an invalid configuration are followed for *)
InvalidHorizon == 5

(* The time sessions whose configuration is changed are followed for *)
SettingsHorizon == 6

(* The recorder scenario: the largest buffer capacity and the number of *)
(* samples one recording is followed for                                *)
MaxBufferSize == 3
MaxSamples == 6

(* The input scenario: the number of input operations it is followed for *)
MaxInputOps == 5

(* The scoring scenario: the longest array of reaction times or precisions *)
MaxTargetRecords == 3
MaxMarks == 2
MaxSessionSamples == 2

(* JavaScript null, for the fields that hold a number or null *)
NULL == -1

(* Config.min_reflex_delay and Config.max_reflex_delay in clock units, the  *)
(* values of Math.random() in hundredths, and the delays drawn from them    *)
MinReflexDelay == 1
MaxReflexDelay == 3
RandomValues == {0, 50}

generateRandomReflexDelay(random) ==
    (random * (MaxReflexDelay - MinReflexDelay)) \div 100 + MinReflexDelay

ReflexDelays == {generateRandomReflexDelay(random) : random \in RandomValues}

(* Config.min_target_percentage and Config.max_target_percentage, and the   *)
(* target drawn from a value of Math.random() in hundredths                 *)
MinTargetPercentage == 10
MaxTargetPercentage == 90

\* Variant of generateRandomTarget that draws from max - min values only
generateRandomTargetShort(random) ==
    (random * (MaxTargetPercentage - MinTargetPercentage)) \div 100 + MinTargetPercentage

\* Math.floor(Math.random() * (max - min + 1)) + min
generateRandomTarget(random) ==
    (random * (MaxTargetPercentage - MinTargetPercentage + 1)) \div 100
        + MinTargetPercentage

PrecisionRange == 5
NumberOfTargets == 10
TelemetryBufferSize == 500
TransitionTolerance == 2
FullPress == 98
KeyboardIncrement == 3
MarkedSamples == 5

Positions == {0, 10, 50, 100}
Targets == {generateRandomTarget(random) : random \in RandomValues}
ModeNames == {"fromZero", "fromHundred", "continuous"}

(* The names under which GameModes[name] is truthy: the three modes, the   *)
(* helper functions of the object and what it inherits (toString for one)  *)
GameModesProperties ==
    ModeNames \cup {"getMode", "getAllModes", "getDefaultMode", "toString"}
RafIds == 1..3

Range(s) == {s[i] : i \in DOMAIN s}
RemoveAt(s, i) == SubSeq(s, 1, i - 1) \o SubSeq(s, i + 1, Len(s))
Without(s, x) == SelectSeq(s, LAMBDA y : y # x)
Abs(x) == IF x < 0 THEN -x ELSE x
Min(x, y) == IF x <= y THEN x ELSE y
Max(x, y) == IF x >= y THEN x ELSE y
ToNumber(x) == IF x = NULL THEN 0 ELSE x

(* JavaScript NaN, and the arithmetic it propagates through.  A missing     *)
(* array element (undefined) becomes NaN in the first arithmetic it enters. *)
NaN == -999999999
(* JavaScript Infinity; -Infinity is its negation.  Both compare with the   *)
(* numbers as they do in JavaScript.                                        *)
Infinity == 999999998
IsInfinite(x) == x = Infinity \/ x = -Infinity
Sign(x) == IF x < 0 THEN -1 ELSE 1
Plus(x, y) ==
    IF x = NaN \/ y = NaN THEN NaN
    ELSE IF IsInfinite(x) THEN (IF y = -x THEN NaN ELSE x)
    ELSE IF IsInfinite(y) THEN y
    ELSE x + y
Times(x, y) ==
    IF x = NaN \/ y = NaN THEN NaN
    ELSE IF IsInfinite(x) \/ IsInfinite(y)
         THEN (IF x = 0 \/ y = 0 THEN NaN ELSE Sign(x) * Sign(y) * Infinity)
    ELSE x * y
MathMin(x, y) == IF x = NaN \/ y = NaN THEN NaN ELSE Min(x, y)
MathMax(x, y) == IF x = NaN \/ y = NaN THEN NaN ELSE Max(x, y)

\* App.state.currentState: the game screen is entered by the change of state
\* that starts a session, and left by the caller or by the end of the session
currentState ==
    IF caller.lastCall \in {"none", "stop"} THEN "welcomeScreen"
    ELSE IF caller.lastCall \in {"start", "resume"} /\ ~gameLoop.isRunning
         THEN "resultsScreen"
         ELSE "gameScreen"

World == [gameLoop |-> gameLoop, telemetry |-> telemetry, config |-> config,
          now |-> now, rafQueue |-> rafQueue, frameQueue |-> frameQueue,
          timers |-> timers, input |-> input, gameScreen |-> gameScreen,
          currentState |-> currentState,
          session |-> caller.starts, thrown |-> FALSE]

----------------------------------------------------------------------------
(* Mode strategy: GameModes.<mode>.checkTransitionCondition *)

\* Variant of checkTransitionCondition whose release tolerance is the
\* target precision
checkTransitionConditionWide(modeName, pedalPosition) ==
    CASE modeName = "fromZero" -> pedalPosition <= PrecisionRange + PrecisionRange
      [] modeName = "fromHundred" -> pedalPosition >= FullPress
      [] OTHER -> TRUE

\* Variant of checkTransitionCondition whose comparisons are strict
checkTransitionConditionStrict(modeName, pedalPosition) ==
    CASE modeName = "fromZero" -> pedalPosition < TransitionTolerance
      [] modeName = "fromHundred" -> pedalPosition > FullPress
      [] OTHER -> TRUE

checkTransitionCondition(modeName, pedalPosition) ==
    CASE modeName = "fromZero" -> pedalPosition <= TransitionTolerance
      [] modeName = "fromHundred" -> pedalPosition >= FullPress
      [] OTHER -> TRUE

getTransitionTarget(modeName) ==
    CASE modeName = "fromZero" -> 0
      [] modeName = "fromHundred" -> 100
      [] OTHER -> NULL

----------------------------------------------------------------------------
(* Browser scheduling *)

FreshId(w) ==
    CHOOSE i \in RafIds :
        /\ i \notin Range(w.rafQueue) \cup Range(w.frameQueue)
        /\ \A j \in RafIds :
              j \notin Range(w.rafQueue) \cup Range(w.frameQueue) => i <= j

\* this.animationFrameId = requestAnimationFrame(this.update)
requestAnimationFrame(w) ==
    [w EXCEPT !.rafQueue = Append(@, FreshId(w)),
              !.gameLoop.animationFrameId = FreshId(w)]

cancelAnimationFrame(w, id) ==
    [w EXCEPT !.rafQueue = Without(@, id), !.frameQueue = Without(@, id)]

----------------------------------------------------------------------------
(* Telemetry recording switch *)

\* stats.avg is the fraction num / den
resetStatistics(w) ==
    [w EXCEPT !.telemetry.stats =
        [min |-> 100, max |-> 0, avg |-> [num |-> 0, den |-> 1], totalSamples |-> 0]]

\* Variant of startRecording without the test of isRecording
startRecordingUnguarded(w) ==
    [resetStatistics([w EXCEPT !.telemetry.buffer = <<>>])
        EXCEPT !.telemetry.sessionStartTime = w.now,
               !.telemetry.isRecording = TRUE,
               !.telemetry.recordingInterval = TRUE,
               !.telemetry.intervals = @ + 1]

\* recordingInterval is TRUE while the field holds the id of an interval;
\* intervals is the number of intervals of recordSample the browser keeps
startRecording(w) ==
    IF w.telemetry.isRecording
    THEN w
    ELSE [resetStatistics([w EXCEPT !.telemetry.buffer = <<>>])
             EXCEPT !.telemetry.sessionStartTime = w.now,
                    !.telemetry.isRecording = TRUE,
                    !.telemetry.recordingInterval = TRUE,
                    !.telemetry.intervals = @ + 1]

stopRecording(w) ==
    IF ~w.telemetry.isRecording
    THEN w
    ELSE LET w1 == IF w.telemetry.recordingInterval
                   THEN [w EXCEPT !.telemetry.intervals = @ - 1,
                                  !.telemetry.recordingInterval = FALSE]
                   ELSE w
         IN  [w1 EXCEPT !.telemetry.isRecording = FALSE]

\* Variant of updateStatistics that weighs the average before by the new
\* sample count
updateStatisticsNewCount(w, position) ==
    LET stats == w.telemetry.stats
        totalSamples == stats.totalSamples + 1
        prevTotal == [num |-> stats.avg.num * totalSamples, den |-> stats.avg.den]
    IN  [w EXCEPT !.telemetry.stats =
            [min |-> Min(stats.min, position),
             max |-> Max(stats.max, position),
             totalSamples |-> totalSamples,
             avg |-> [num |-> prevTotal.num + position * prevTotal.den,
                      den |-> prevTotal.den * totalSamples]]]

\* prevTotal = avg * (totalSamples - 1); avg = (prevTotal + position) / totalSamples
updateStatistics(w, position) ==
    LET stats == w.telemetry.stats
        totalSamples == stats.totalSamples + 1
        prevTotal == [num |-> stats.avg.num * (totalSamples - 1), den |-> stats.avg.den]
    IN  [w EXCEPT !.telemetry.stats =
            [min |-> Min(stats.min, position),
             max |-> Max(stats.max, position),
             totalSamples |-> totalSamples,
             avg |-> [num |-> prevTotal.num + position * prevTotal.den,
                      den |-> prevTotal.den * totalSamples]]]

\* The sample recordSample builds from the clock, the position and the
\* loop's flags (a target of 0 is stored as null)
Sample(w, pedalPosition) ==
    [time |-> w.now - w.telemetry.sessionStartTime,
     timestamp |-> w.now,
     position |-> pedalPosition,
     isInTarget |-> w.gameLoop.isInTargetRange,
     isTransition |-> w.gameLoop.isInTransition,
     targetValue |-> IF w.gameLoop.currentTarget = 0 THEN NULL ELSE w.gameLoop.currentTarget]

\* Variant of recordSample that evicts as soon as the buffer is full
recordSampleEvictsEarly(w, pedalPosition) ==
    IF ~w.telemetry.isRecording
    THEN w
    ELSE LET pushed == Append(w.telemetry.buffer, Sample(w, pedalPosition))
             trimmed == IF Len(pushed) >= w.telemetry.bufferSize THEN Tail(pushed) ELSE pushed
         IN  updateStatistics([w EXCEPT !.telemetry.buffer = trimmed], pedalPosition)

recordSample(w, pedalPosition) ==
    IF ~w.telemetry.isRecording
    THEN w
    ELSE LET pushed == Append(w.telemetry.buffer, Sample(w, pedalPosition))
             trimmed == IF Len(pushed) > w.telemetry.bufferSize THEN Tail(pushed) ELSE pushed
         IN  updateStatistics([w EXCEPT !.telemetry.buffer = trimmed], pedalPosition)

\* Variant of markTarget that annotates every buffered sample
markTargetAll(w, targetValue, isTransition) ==
    IF ~w.telemetry.isRecording
    THEN w
    ELSE [w EXCEPT !.telemetry.buffer =
             [i \in 1..Len(@) |-> [@[i] EXCEPT !.targetValue = targetValue,
                                               !.isTransition = isTransition]]]

markTarget(w, targetValue, isTransition) ==
    IF ~w.telemetry.isRecording
    THEN w
    ELSE LET numSamplesToMark == Min(MarkedSamples, Len(w.telemetry.buffer))
         IN  [w EXCEPT !.telemetry.buffer =
                 [i \in 1..Len(@) |->
                     IF i > Len(@) - numSamplesToMark
                     THEN [@[i] EXCEPT !.targetValue = targetValue,
                                       !.isTransition = isTransition]
                     ELSE @[i]]]

markInRange(w, inRange) ==
    IF ~w.telemetry.isRecording
    THEN w
    ELSE IF Len(w.telemetry.buffer) > 0
         THEN [w EXCEPT !.telemetry.buffer[Len(w.telemetry.buffer)].isInTarget = inRange]
         ELSE w

----------------------------------------------------------------------------
(* InputHandler *)

isPedalWithinRange(currentPedalPosition, target, range) ==
    LET lowerBound == target - range
        upperBound == target + range
    IN  currentPedalPosition >= lowerBound /\ currentPedalPosition <= upperBound

(* The handler's fields.  Positions are whole percents; gamepads maps each  *)
(* gamepad index to the number of axes of the device connected there, 0     *)
(* when none is.                                                            *)
GamepadIndices == {0, 1}
AxisCounts == {1, 2}
RawValues == {-2, -1, 0, 1, 2}
Keys == {"ArrowUp", "ArrowDown"}

InitInput ==
    [currentPedalPosition |-> 0, prevPedalPosition |-> 0, rawPedalValue |-> 0,
     gamepads |-> [i \in GamepadIndices |-> 0], activeGamepad |-> NULL,
     pedalAxis |-> 1, pedalReversed |-> TRUE, keyboardEnabled |-> FALSE,
     keysPressedState |-> [k \in Keys |-> FALSE], keyRepeatTimer |-> FALSE,
     inputType |-> "none", isConnected |-> FALSE]

enableGamepadInput(w) == [w EXCEPT !.input.keyboardEnabled = FALSE]

enableKeyboardInput(w) ==
    LET w1 == [w EXCEPT !.input.keyboardEnabled = TRUE,
                        !.input.inputType = "keyboard",
                        !.input.isConnected = TRUE,
                        !.input.currentPedalPosition = 0,
                        !.input.prevPedalPosition = 0]
    IN  IF ~w1.telemetry.isRecording /\ w1.currentState = "gameScreen"
        THEN startRecording(w1)
        ELSE w1

\* axes: the axis values of the active gamepad as navigator.getGamepads()
\* reports them, <<>> when it reports no device at the active index
updateGamepadState(w, axes) ==
    IF w.input.activeGamepad = NULL \/ axes = <<>> THEN w
    ELSE LET rawPedalValue == IF w.input.pedalAxis + 1 \in DOMAIN axes
                              THEN axes[w.input.pedalAxis + 1]
                              ELSE NaN
             normalizedValue == IF w.input.pedalReversed
                                THEN Times(Plus(1, Times(-1, rawPedalValue)), 50)
                                ELSE Times(Plus(rawPedalValue, 1), 50)
         IN  [w EXCEPT !.input.rawPedalValue = rawPedalValue,
                       !.input.currentPedalPosition =
                           MathMax(0, MathMin(100, normalizedValue))]

updateKeyboardInput(w) ==
    LET up == IF w.input.keysPressedState["ArrowUp"]
              THEN Plus(w.input.currentPedalPosition, KeyboardIncrement)
              ELSE w.input.currentPedalPosition
        down == IF w.input.keysPressedState["ArrowDown"]
                THEN Plus(up, -KeyboardIncrement)
                ELSE up
        w1 == [w EXCEPT !.input.currentPedalPosition = MathMax(0, MathMin(100, down))]
    IN  IF w1.input.keyboardEnabled /\ w1.currentState = "gameScreen"
           /\ ~w1.telemetry.isRecording
        THEN startRecording(w1)
        ELSE w1

\* smoothingFactor is 0.2: a fifth of the previous position and four fifths
\* of the current one, rounded down to a whole percent
smoothPedalPosition(w) ==
    LET mixed == Plus(w.input.prevPedalPosition, Times(4, w.input.currentPedalPosition))
        smoothed == IF mixed = NaN THEN NaN ELSE mixed \div 5
    IN  [w EXCEPT !.input.currentPedalPosition = smoothed,
                  !.input.prevPedalPosition = smoothed]

\* InputHandler.update.  A gamepad index of 0 is falsy.
updateInput(w, axes) ==
    LET w1 == IF w.input.inputType = "gamepad"
                 /\ w.input.activeGamepad \notin {NULL, 0}
              THEN updateGamepadState(w, axes)
              ELSE w
        w2 == IF w1.input.inputType = "keyboard" /\ w1.input.keyboardEnabled
              THEN updateKeyboardInput(w1)
              ELSE w1
    IN  smoothPedalPosition(w2)

onGamepadConnected(w, index, axisCount) ==
    LET w1 == [w EXCEPT !.input.gamepads[index] = axisCount]
    IN  IF w1.input.activeGamepad = NULL
        THEN [w1 EXCEPT !.input.activeGamepad = index,
                        !.input.inputType = "gamepad",
                        !.input.isConnected = TRUE]
        ELSE w1


onGamepadDisconnectedKeepsFlag(w, index) ==
    LET w1 == [w EXCEPT !.input.gamepads[index] = 0]
        gamepadIndices == {i \in GamepadIndices : w1.input.gamepads[i] # 0}
    IN  IF w1.input.activeGamepad # index THEN w1
        ELSE IF gamepadIndices # {}
        THEN [w1 EXCEPT !.input.activeGamepad =
                            CHOOSE i \in gamepadIndices : \A j \in gamepadIndices : i <= j]
        ELSE [w1 EXCEPT !.input.activeGamepad = NULL,
                        !.input.inputType =
                            IF w1.input.keyboardEnabled THEN "keyboard" ELSE "none"]

onGamepadDisconnected(w, index) ==
    LET w1 == [w EXCEPT !.input.gamepads[index] = 0]
        gamepadIndices == {i \in GamepadIndices : w1.input.gamepads[i] # 0}
    IN  IF w1.input.activeGamepad # index THEN w1
        ELSE IF gamepadIndices # {}
        THEN [w1 EXCEPT !.input.activeGamepad =
                            CHOOSE i \in gamepadIndices : \A j \in gamepadIndices : i <= j]
        ELSE [w1 EXCEPT !.input.activeGamepad = NULL,
                        !.input.inputType =
                            IF w1.input.keyboardEnabled THEN "keyboard" ELSE "none",
                        !.input.isConnected = w1.input.keyboardEnabled]


\* reported: the axis count of the device navigator.getGamepads() reports at
\* each index, 0 for an empty slot.  The loop visits the indices in
\* ascending order.
RECURSIVE checkForGamepadsFrom(_, _, _)
checkForGamepadsFrom(w, reported, indices) ==
    IF indices = {} THEN w
    ELSE LET i == CHOOSE k \in indices : \A j \in indices : k <= j
             w1 == IF reported[i] = 0 THEN w
                   ELSE [w EXCEPT !.input.gamepads[i] = reported[i]]
             w2 == IF reported[i] # 0 /\ w1.input.activeGamepad = NULL
                   THEN [w1 EXCEPT !.input.activeGamepad = i,
                                   !.input.inputType = "gamepad",
                                   !.input.isConnected = TRUE]
                   ELSE w1
         IN  checkForGamepadsFrom(w2, reported, indices \ {i})

checkForGamepads(w, reported) == checkForGamepadsFrom(w, reported, GamepadIndices)

\* The click listener of the "Use Gamepad" button
useGamepadButton(w, reported) == enableGamepadInput(checkForGamepads(w, reported))

\* The change listener of the gamepad dropdown; value is one of its options
selectGamepad(w, value) ==
    [w EXCEPT !.input.activeGamepad = value,
              !.input.inputType = "gamepad",
              !.input.isConnected = TRUE]

\* key is one of the arrow keys; the other keys are ignored
onKeyDown(w, key) ==
    IF w.input.keysPressedState[key] THEN w
    ELSE LET w1 == [w EXCEPT !.input.keysPressedState[key] = TRUE]
             w2 == IF ~w1.input.keyboardEnabled /\ w1.input.inputType # "gamepad"
                   THEN enableKeyboardInput(w1)
                   ELSE w1
             w3 == updateKeyboardInput(w2)
         IN  [w3 EXCEPT !.input.keyRepeatTimer = TRUE]

onKeyUp(w, key) == [w EXCEPT !.input.keysPressedState[key] = FALSE]

\* The callback of the key repeat interval set by onKeyDown
keyRepeat(w) ==
    IF w.input.keysPressedState["ArrowUp"] \/ w.input.keysPressedState["ArrowDown"]
    THEN updateKeyboardInput(w)
    ELSE [w EXCEPT !.input.keyRepeatTimer = FALSE]

\* The Select button of an axis in the gamepad selection panel
selectAxis(w, i) == [w EXCEPT !.input.pedalAxis = i]

getPedalPosition(w) == w.input.currentPedalPosition

forcePedalPosition(w, position) ==
    LET forced == MathMax(0, MathMin(100, position))
    IN  [w EXCEPT !.input.currentPedalPosition = forced,
                  !.input.prevPedalPosition = forced]

----------------------------------------------------------------------------
(* Scoring.  A number of the scoring code is held as a whole number of      *)
(* hundredths, rounded down: 2.5 is 250.  Mul and Div are JavaScript's *   *)
(* and / on such numbers.                                                   *)

Fixed(n) == n * 100
Mul(x, y) ==
    IF x = NaN \/ y = NaN \/ IsInfinite(x) \/ IsInfinite(y) THEN Times(x, y)
    ELSE (x * y) \div 100
Div(x, y) ==
    IF x = NaN \/ y = NaN THEN NaN
    ELSE IF IsInfinite(x) THEN (IF IsInfinite(y) THEN NaN ELSE Sign(x) * Sign(y) * Infinity)
    ELSE IF IsInfinite(y) THEN 0
    ELSE IF y = 0 THEN (IF x = 0 THEN NaN ELSE Sign(x) * Infinity)
    ELSE (x * 100) \div y
MathRound(x) == IF x = NaN \/ IsInfinite(x) THEN x ELSE ((x + 50) \div 100) * 100

RECURSIVE SqrtBetween(_, _, _)
SqrtBetween(x, lo, hi) ==
    IF lo >= hi THEN lo
    ELSE LET mid == (lo + hi + 1) \div 2
         IN  IF mid * mid <= x THEN SqrtBetween(x, mid, hi) ELSE SqrtBetween(x, lo, mid - 1)

\* Math.sqrt of a number that is not negative
MathSqrt(x) == IF x = NaN \/ x = Infinity THEN x ELSE SqrtBetween(x * 100, 0, 40000)

RECURSIVE ExpSeries(_, _, _, _)
\* The sum of the terms k, k+1, ... of the series of exp(-y), in ten-thousandths,
\* for y in hundredths; term is the absolute value of term k
ExpSeries(y, k, term, sign) ==
    IF term = 0 THEN 0
    ELSE sign * term + ExpSeries(y, k + 1, (term * y) \div (100 * (k + 1)), -sign)

RECURSIVE ExpNeg(_)
\* exp(-y) in ten-thousandths, for y >= 0 in hundredths
ExpNeg(y) ==
    IF y <= 50 THEN ExpSeries(y, 0, 10000, 1)
    ELSE LET half == ExpNeg(y \div 2)
             rest == ExpNeg(y - y \div 2)
         IN  (half * rest) \div 10000

\* Math.exp of a number that is not positive, to the nearest hundredth
MathExp(x) ==
    IF x = NaN THEN NaN
    ELSE IF x = -Infinity THEN 0
    ELSE (ExpNeg(-x) + 50) \div 100

RECURSIVE Sum(_)
Sum(values) == IF values = <<>> THEN 0 ELSE Plus(Head(values), Sum(Tail(values)))

calculateAverage(values) ==
    IF Len(values) = 0 THEN 0 ELSE Div(Sum(values), Fixed(Len(values)))

calculateStandardDeviation(values, mean) ==
    IF Len(values) = 0 THEN 0
    ELSE LET squaredDiffs == [i \in DOMAIN values |->
                                 Mul(Plus(values[i], Times(-1, mean)),
                                     Plus(values[i], Times(-1, mean)))]
             sumSquaredDiffs == Sum(squaredDiffs)
             variance == Div(sumSquaredDiffs, Fixed(Len(values)))
         IN  MathSqrt(variance)

\* Variant of calculateConsistency that divides by a mean of zero
calculateConsistencyUnguarded(reactionTimes, precisionValues) ==
    LET rtMean == calculateAverage(reactionTimes)
        rtStdDev == calculateStandardDeviation(reactionTimes, rtMean)
        rtCV == Div(rtStdDev, rtMean)
        precMean == calculateAverage(precisionValues)
        precStdDev == calculateStandardDeviation(precisionValues, precMean)
        precCV == Div(precStdDev, precMean)
        combinedCV == Div(Plus(rtCV, precCV), Fixed(2))
        consistencyScore ==
            MathMax(0, MathMin(Fixed(100),
                               Mul(Fixed(100), MathExp(Mul(Fixed(-5), combinedCV)))))
    IN  MathRound(consistencyScore)

calculateConsistency(reactionTimes, precisionValues) ==
    LET rtMean == calculateAverage(reactionTimes)
        rtStdDev == calculateStandardDeviation(reactionTimes, rtMean)
        rtCV == IF rtMean # 0 THEN Div(rtStdDev, rtMean) ELSE 0
        precMean == calculateAverage(precisionValues)
        precStdDev == calculateStandardDeviation(precisionValues, precMean)
        precCV == IF precMean # 0 THEN Div(precStdDev, precMean) ELSE 0
        combinedCV == Div(Plus(rtCV, precCV), Fixed(2))
        consistencyScore ==
            MathMax(0, MathMin(Fixed(100),
                               Mul(Fixed(100), MathExp(Mul(Fixed(-5), combinedCV)))))
    IN  MathRound(consistencyScore)

\* The weights 0.4, 0.3, 0.2 and 0.1 are 40, 30, 20 and 10 hundredths
calculateOverallScore(totalTime, avgReactionTime, avgPrecision, consistencyScore, numTargets) ==
    LET timePerTarget == Div(totalTime, numTargets)
        timeScore == MathMax(0, Plus(Fixed(100), Times(-1, Mul(timePerTarget, Fixed(10)))))
        reactionScore == MathMax(0, Plus(Fixed(100), Times(-1, Mul(avgReactionTime, Fixed(100)))))
        precisionScore == MathMax(0, Plus(Fixed(100), Times(-1, Mul(avgPrecision, Fixed(2)))))
        overallScore == Plus(Plus(Mul(timeScore, 40), Mul(reactionScore, 30)),
                             Plus(Mul(precisionScore, 20), Mul(consistencyScore, 10)))
    IN  MathRound(overallScore)

calculateTotalTransitionTime(w, sessionData) ==
    LET transitionDelay == IF w.config.transition_delay = 0
                           THEN Fixed(1)
                           ELSE Fixed(w.config.transition_delay)
        numTransitions == Fixed(Len(sessionData.targets))
    IN  Mul(numTransitions, transitionDelay)

RECURSIVE MinOf(_)
MinOf(values) ==
    IF values = <<>> THEN Infinity ELSE MathMin(Head(values), MinOf(Tail(values)))

RECURSIVE MaxOf(_)
MaxOf(values) ==
    IF values = <<>> THEN -Infinity ELSE MathMax(Head(values), MaxOf(Tail(values)))

\* The scores object of a fresh session
InitScores == [totalTime |-> 0, averageReactionTime |-> 0, averagePrecision |-> 0]

\* The averageDeviation of calculateAccuracy, a number in hundredths: NULL
\* when getDataInTimeRange finds no sample from startTime to endTime
calculateAccuracy(w, targetValue, startTime, endTime) ==
    LET InTimeRange(sample) == sample.time >= startTime /\ sample.time <= endTime
        samples == SelectSeq(w.telemetry.buffer, InTimeRange)
        totalDeviation == Sum([i \in DOMAIN samples |->
                                  Abs(samples[i].position - targetValue)])
    IN  IF Len(samples) = 0 THEN NULL
        ELSE (totalDeviation * 100) \div Len(samples)

\* deviations: for each target the averageDeviation that
\* App.telemetry.calculateAccuracy reports, NULL when it found no sample
calculateFinalScores(w, sessionData, deviations) ==
    IF Len(sessionData.targets) = 0 THEN sessionData
    ELSE LET totalTime == Div(Fixed(sessionData.endTime - sessionData.startTime), Fixed(1000))
             reactionTimes == [i \in DOMAIN sessionData.targets |->
                                  Fixed(sessionData.targets[i].reactionTime)]
             avgReactionTime == calculateAverage(reactionTimes)
             accuracyValues ==
                 [i \in DOMAIN sessionData.targets |->
                     IF sessionData.targets[i].accuracy = 0
                     THEN (IF deviations[i] \in {NULL, NaN} THEN 0 ELSE deviations[i])
                     ELSE sessionData.targets[i].accuracy]
             avgPrecision == calculateAverage(accuracyValues)
             consistencyScore == calculateConsistency(reactionTimes, accuracyValues)
             overallScore == calculateOverallScore(totalTime, avgReactionTime, avgPrecision,
                                                   consistencyScore,
                                                   Fixed(Len(sessionData.targets)))
         IN  [sessionData EXCEPT !.scores =
                 [totalTime |-> totalTime,
                  gameTime |-> Plus(totalTime,
                                    Times(-1, calculateTotalTransitionTime(w, sessionData))),
                  avgReactionTime |-> avgReactionTime,
                  minReactionTime |-> MinOf(reactionTimes),
                  maxReactionTime |-> MaxOf(reactionTimes),
                  avgPrecision |-> avgPrecision,
                  consistencyScore |-> consistencyScore,
                  overallScore |-> overallScore]]

----------------------------------------------------------------------------
(* GameLoop *)

\* The progress values are numbers in hundredths.  Of the other values handed
\* to the GameScreen (position, target text, status colour, counter, timer)
\* none is read back; GameScreen.updateTelemetryGraph starts the recorder.
updateGameUI(w) ==
    LET g == w.gameLoop
        transitionProgress ==
            IF g.transitionComplete THEN Fixed(1)
            ELSE IF g.transitionConditionMetTime \notin {NULL, 0}
            THEN MathMin(Fixed(1), Div(Fixed(w.now - g.transitionConditionMetTime),
                                       Fixed(w.config.transition_delay)))
            ELSE 0
        validProgress ==
            IF g.validDurationMet THEN Fixed(1)
            ELSE IF g.isInTargetRange
            THEN MathMin(Fixed(1), Div(Fixed(w.now - g.inRangeStartTime),
                                       Fixed(w.config.valid_duration)))
            ELSE 0
        w1 == [w EXCEPT !.gameScreen =
                  IF g.isInTransition
                  THEN [transitionProgress |-> transitionProgress, validProgress |-> 0]
                  ELSE [transitionProgress |-> 0, validProgress |-> validProgress]]
    IN  IF w1.gameLoop.isRunning /\ ~w1.telemetry.isRecording
        THEN startRecording(w1)
        ELSE w1

stopGame(w) ==
    IF ~w.gameLoop.isRunning
    THEN w
    ELSE LET w1 == IF w.gameLoop.animationFrameId # NULL
                   THEN [cancelAnimationFrame(w, w.gameLoop.animationFrameId)
                            EXCEPT !.gameLoop.animationFrameId = NULL]
                   ELSE w
             w2 == stopRecording(w1)
         IN  [w2 EXCEPT !.gameLoop.isRunning = FALSE]

\* gameMode is the name of the GameModes property this.gameMode holds
setGameMode(w, modeName) ==
    [w EXCEPT !.gameLoop.gameMode =
        IF modeName \in GameModesProperties THEN modeName ELSE "fromZero"]

\* updateGameUI and markTarget call this.gameMode.getTransitionTarget(), a
\* TypeError unless gameMode is one of the three mode objects
\* Variant of startTransition that keeps the transition tracking as it was
startTransitionKeepsTracking(w) ==
    LET w1 == [w EXCEPT !.gameLoop.isInTransition = TRUE,
                        !.gameLoop.currentTarget = NULL]
    IN  IF w1.gameLoop.gameMode \in ModeNames
        THEN markTarget(updateGameUI(w1), getTransitionTarget(w1.gameLoop.gameMode), TRUE)
        ELSE [w1 EXCEPT !.thrown = TRUE]

startTransition(w) ==
    LET w1 == [w EXCEPT !.gameLoop.isInTransition = TRUE,
                        !.gameLoop.transitionComplete = FALSE,
                        !.gameLoop.transitionConditionMetTime = NULL,
                        !.gameLoop.currentTarget = NULL]
    IN  IF w1.gameLoop.gameMode \in ModeNames
        THEN markTarget(updateGameUI(w1), getTransitionTarget(w1.gameLoop.gameMode), TRUE)
        ELSE [w1 EXCEPT !.thrown = TRUE]

\* Variant of showNewTarget that does not restart the target's clock
showNewTargetKeepsClock(w, target) ==
    IF ~w.gameLoop.isRunning
    THEN w
    ELSE markTarget(updateGameUI([w EXCEPT !.gameLoop.isInTransition = FALSE,
                                !.gameLoop.transitionConditionMetTime = NULL,
                                !.gameLoop.transitionComplete = FALSE,
                                !.gameLoop.currentTarget = target,
                                !.gameLoop.isInTargetRange = FALSE,
                                !.gameLoop.inRangeStartTime = 0,
                                !.gameLoop.validDurationMet = FALSE]), target, FALSE)

\* Variant of showNewTarget that keeps the in-range tracking of the target
\* before
showNewTargetKeepsTracking(w, target) ==
    IF ~w.gameLoop.isRunning
    THEN w
    ELSE markTarget(updateGameUI([w EXCEPT !.gameLoop.isInTransition = FALSE,
                                !.gameLoop.transitionConditionMetTime = NULL,
                                !.gameLoop.transitionComplete = FALSE,
                                !.gameLoop.currentTarget = target,
                                !.gameLoop.targetStartTime = w.now,
                                !.gameLoop.validDurationMet = FALSE]), target, FALSE)

showNewTarget(w, target) ==
    IF ~w.gameLoop.isRunning
    THEN w
    ELSE markTarget(updateGameUI([w EXCEPT !.gameLoop.isInTransition = FALSE,
                                !.gameLoop.transitionConditionMetTime = NULL,
                                !.gameLoop.transitionComplete = FALSE,
                                !.gameLoop.currentTarget = target,
                                !.gameLoop.targetStartTime = w.now,
                                !.gameLoop.isInTargetRange = FALSE,
                                !.gameLoop.inRangeStartTime = 0,
                                !.gameLoop.validDurationMet = FALSE]), target, FALSE)

completeTransition(w, target, reflexDelay) ==
    IF ~w.gameLoop.isInTransition \/ w.gameLoop.transitionComplete
    THEN w
    ELSE LET w1 == [w EXCEPT !.gameLoop.transitionComplete = TRUE]
         IN  IF w1.gameLoop.reflexMode
             THEN [w1 EXCEPT !.timers =
                      Append(@, [due |-> w.now + reflexDelay, session |-> w.session])]
             ELSE showNewTarget(w1, target)

\* App.state.endGameSession leaves the game screen, whose exit calls stopGame
\* once more: the loop is no longer running and that call returns at once
endGame(w) == stopGame(stopGame(w))

\* Variant of completeTarget that ends the session one completion late
completeTargetOneLate(w) ==
    LET g == w.gameLoop
        targetData == [targetValue |-> g.currentTarget,
                       reactionTime |-> g.inRangeStartTime - g.targetStartTime,
                       completionTime |-> w.now - g.targetStartTime,
                       accuracy |-> 0]
        w1 == [w EXCEPT !.gameLoop.targetsCompleted = @ + 1,
                        !.gameLoop.targets = Append(@, targetData)]
    IN  IF w1.gameLoop.targetsCompleted > w1.gameLoop.totalTargets
        THEN endGame(w1)
        ELSE startTransition([w1 EXCEPT !.gameLoop.transitionConditionMetTime = NULL,
                                        !.gameLoop.transitionComplete = FALSE])

\* Variant of completeTarget that measures the completion time from the
\* entry into the range
completeTargetSinceEntry(w) ==
    LET g == w.gameLoop
        targetData == [targetValue |-> g.currentTarget,
                       reactionTime |-> g.inRangeStartTime - g.targetStartTime,
                       completionTime |-> w.now - g.inRangeStartTime,
                       accuracy |-> 0]
        w1 == [w EXCEPT !.gameLoop.targetsCompleted = @ + 1,
                        !.gameLoop.targets = Append(@, targetData)]
    IN  IF w1.gameLoop.targetsCompleted >= w1.gameLoop.totalTargets
        THEN endGame(w1)
        ELSE startTransition([w1 EXCEPT !.gameLoop.transitionConditionMetTime = NULL,
                                        !.gameLoop.transitionComplete = FALSE])

completeTarget(w) ==
    LET g == w.gameLoop
        targetData == [targetValue |-> g.currentTarget,
                       reactionTime |-> g.inRangeStartTime - g.targetStartTime,
                       completionTime |-> w.now - g.targetStartTime,
                       accuracy |-> 0]
        w1 == [w EXCEPT !.gameLoop.targetsCompleted = @ + 1,
                        !.gameLoop.targets = Append(@, targetData)]
    IN  IF w1.gameLoop.targetsCompleted >= w1.gameLoop.totalTargets
        THEN endGame(w1)
        ELSE startTransition([w1 EXCEPT !.gameLoop.transitionConditionMetTime = NULL,
                                        !.gameLoop.transitionComplete = FALSE])

\* Variant of updateTimers that counts the time of every tick
updateTimersAlways(w, deltaTime) ==
    [w EXCEPT !.gameLoop.gameTime = @ + deltaTime]

updateTimers(w, deltaTime) ==
    IF ~w.gameLoop.isInTransition
    THEN [w EXCEPT !.gameLoop.gameTime = @ + deltaTime]
    ELSE w

\* Variant of updateTransitionPhase that keeps the condition timer running
\* over a tick at which the condition is not satisfied
updateTransitionPhaseKeepsTimer(w, pedalPosition, target, reflexDelay) ==
    LET g == w.gameLoop IN
    IF g.transitionComplete
    THEN w
    ELSE IF checkTransitionCondition(g.gameMode, pedalPosition)
         THEN IF g.transitionConditionMetTime = NULL \/ g.transitionConditionMetTime = 0
              THEN [w EXCEPT !.gameLoop.transitionConditionMetTime = w.now]
              ELSE LET w1 == updateGameUI(w) IN
                   IF w.now - g.transitionConditionMetTime >= w.config.transition_delay
                   THEN completeTransition(w1, target, reflexDelay)
                   ELSE w1
         ELSE w

updateTransitionPhase(w, pedalPosition, target, reflexDelay) ==
    LET g == w.gameLoop IN
    IF g.transitionComplete
    THEN w
    ELSE IF checkTransitionCondition(g.gameMode, pedalPosition)
         THEN IF g.transitionConditionMetTime = NULL \/ g.transitionConditionMetTime = 0
              THEN [w EXCEPT !.gameLoop.transitionConditionMetTime = w.now]
              ELSE LET w1 == updateGameUI(w) IN
                   IF w.now - g.transitionConditionMetTime >= w.config.transition_delay
                   THEN completeTransition(w1, target, reflexDelay)
                   ELSE w1
         ELSE [w EXCEPT !.gameLoop.transitionConditionMetTime = NULL]

\* Variant of updateTargetPhase that keeps the hold timer running over an
\* out-of-range tick
updateTargetPhaseKeepsTimer(w, pedalPosition) ==
    LET g == w.gameLoop
        isInRange == Abs(pedalPosition - ToNumber(g.currentTarget)) <= w.config.precision_range
        m == markInRange(w, isInRange)
    IN
    IF g.validDurationMet
    THEN w
    ELSE IF isInRange
         THEN IF ~g.isInTargetRange
              THEN [m EXCEPT !.gameLoop.isInTargetRange = TRUE,
                             !.gameLoop.inRangeStartTime = w.now]
              ELSE IF w.now - g.inRangeStartTime >= w.config.valid_duration
                   THEN completeTarget([m EXCEPT !.gameLoop.validDurationMet = TRUE])
                   ELSE m
         ELSE m

\* Variant of updateTargetPhase whose in-range test excludes the boundary
updateTargetPhaseExclusive(w, pedalPosition) ==
    LET g == w.gameLoop
        isInRange == Abs(pedalPosition - ToNumber(g.currentTarget)) < w.config.precision_range
        m == markInRange(w, isInRange)
    IN
    IF g.validDurationMet
    THEN w
    ELSE IF isInRange
         THEN IF ~g.isInTargetRange
              THEN [m EXCEPT !.gameLoop.isInTargetRange = TRUE,
                             !.gameLoop.inRangeStartTime = w.now]
              ELSE IF w.now - g.inRangeStartTime >= w.config.valid_duration
                   THEN completeTarget([m EXCEPT !.gameLoop.validDurationMet = TRUE])
                   ELSE m
         ELSE [m EXCEPT !.gameLoop.isInTargetRange = FALSE,
                        !.gameLoop.inRangeStartTime = 0]

updateTargetPhase(w, pedalPosition) ==
    LET g == w.gameLoop
        isInRange == Abs(pedalPosition - ToNumber(g.currentTarget)) <= w.config.precision_range
        m == markInRange(w, isInRange)
    IN
    IF g.validDurationMet
    THEN w
    ELSE IF isInRange
         THEN IF ~g.isInTargetRange
              THEN [m EXCEPT !.gameLoop.isInTargetRange = TRUE,
                             !.gameLoop.inRangeStartTime = w.now]
              ELSE IF w.now - g.inRangeStartTime >= w.config.valid_duration
                   THEN completeTarget([m EXCEPT !.gameLoop.validDurationMet = TRUE])
                   ELSE m
         ELSE [m EXCEPT !.gameLoop.isInTargetRange = FALSE,
                        !.gameLoop.inRangeStartTime = 0]

\* The position update reads: appInput is NULL when App.input is not there,
\* and the position App.input.getPedalPosition() returns otherwise
readPedalPosition(appInput) == IF appInput = NULL THEN 0 ELSE appInput

\* pedalPosition is what App.input.getPedalPosition() returns to this tick
update(w, timestamp, pedalPosition, target, reflexDelay) ==
    IF ~w.gameLoop.isRunning
    THEN w
    ELSE LET deltaTime == timestamp - w.gameLoop.lastFrameTime
             w1 == [w EXCEPT !.gameLoop.lastFrameTime = timestamp]
             w2 == updateTimers(w1, deltaTime)
             w3 == IF w2.gameLoop.isInTransition
                   THEN updateTransitionPhase(w2, pedalPosition, target, reflexDelay)
                   ELSE updateTargetPhase(w2, pedalPosition)
         IN  requestAnimationFrame(updateGameUI(w3))

\* Variant of startGame that carries the completion count over from the
\* session before
startGameKeepsCount(w, sessionData) ==
    LET w0 == stopGame(w)
        w1 == [w0 EXCEPT !.gameLoop.reflexMode = sessionData.reflexMode,
                         !.gameLoop.totalTargets =
                             IF sessionData.totalTargets = 0
                             THEN w.config.number_of_targets
                             ELSE sessionData.totalTargets,
                         !.gameLoop.targets = <<>>,
                         !.gameLoop.gameTime = 0]
        modeName == IF sessionData.gameMode = ""
                    THEN w.config.default_game_mode
                    ELSE sessionData.gameMode
        w2 == startTransition(setGameMode(w1, modeName))
        w3 == startRecording([w2 EXCEPT !.gameLoop.lastFrameTime = w.now])
    IN  IF w2.thrown
        THEN w2
        ELSE requestAnimationFrame([w3 EXCEPT !.gameLoop.isRunning = TRUE])

startGame(w, sessionData) ==
    LET w0 == stopGame(w)
        w1 == [w0 EXCEPT !.gameLoop.reflexMode = sessionData.reflexMode,
                         !.gameLoop.totalTargets =
                             IF sessionData.totalTargets = 0
                             THEN w.config.number_of_targets
                             ELSE sessionData.totalTargets,
                         !.gameLoop.targetsCompleted = 0,
                         !.gameLoop.targets = <<>>,
                         !.gameLoop.gameTime = 0]
        modeName == IF sessionData.gameMode = ""
                    THEN w.config.default_game_mode
                    ELSE sessionData.gameMode
        w2 == startTransition(setGameMode(w1, modeName))
        w3 == startRecording([w2 EXCEPT !.gameLoop.lastFrameTime = w.now])
    IN  IF w2.thrown
        THEN w2
        ELSE requestAnimationFrame([w3 EXCEPT !.gameLoop.isRunning = TRUE])

pauseGame(w) ==
    IF ~w.gameLoop.isRunning
    THEN w
    ELSE LET w1 == [w EXCEPT !.gameLoop.isRunning = FALSE] IN
         IF w1.gameLoop.animationFrameId # NULL
         THEN [cancelAnimationFrame(w1, w1.gameLoop.animationFrameId)
                  EXCEPT !.gameLoop.animationFrameId = NULL]
         ELSE w1

resumeGame(w) ==
    IF w.gameLoop.isRunning
    THEN w
    ELSE requestAnimationFrame([w EXCEPT !.gameLoop.isRunning = TRUE,
                                         !.gameLoop.lastFrameTime = w.now])

----------------------------------------------------------------------------
(* Observers.  They record facts about the positions fed to the ticks that  *)
(* the claims speak of and the code does not store: since when the position *)
(* has been in range (or the transition condition satisfied) at every tick, *)
(* whether such a run was interrupted, and the time spent paused during it. *)

InRange(g, cfg, pedalPosition) ==
    Abs(pedalPosition - ToNumber(g.currentTarget)) <= cfg.precision_range

HoldTick(g) == g.isRunning /\ ~g.isInTransition /\ ~g.validDurationMet
ConditionTick(g) == g.isRunning /\ g.isInTransition /\ ~g.transitionComplete

InitObs ==
    [holdStreak |-> NULL, holdBroken |-> FALSE, holdPaused |-> 0,
     condStreak |-> NULL, condBroken |-> FALSE, condPaused |-> 0,
     sessionConfig |-> NULL, samples |-> <<>>, inputOps |-> 0, revealedAt |-> NULL,
     polled |-> {}]

ResetHold(o) == [o EXCEPT !.holdStreak = NULL, !.holdBroken = FALSE, !.holdPaused = 0]
ResetCond(o) == [o EXCEPT !.condStreak = NULL, !.condBroken = FALSE, !.condPaused = 0]

ObserveTick(o, g, cfg, pedalPosition, t) ==
    IF HoldTick(g)
    THEN IF InRange(g, cfg, pedalPosition)
         THEN IF o.holdStreak = NULL
              THEN [o EXCEPT !.holdStreak = t, !.holdPaused = 0]
              ELSE o
         ELSE [o EXCEPT !.holdStreak = NULL, !.holdPaused = 0,
                        !.holdBroken = @ \/ (o.holdStreak # NULL /\ g.lastFrameTime > o.holdStreak)]
    ELSE IF ConditionTick(g)
         THEN IF checkTransitionCondition(g.gameMode, pedalPosition)
              THEN IF o.condStreak = NULL
                   THEN [o EXCEPT !.condStreak = t, !.condPaused = 0]
                   ELSE o
              ELSE [o EXCEPT !.condStreak = NULL, !.condPaused = 0,
                             !.condBroken = @ \/ (o.condStreak # NULL /\ g.lastFrameTime > o.condStreak)]
         ELSE o

\* g is the loop before the handler and g2 the loop after it
ObservePhase(o, g, g2) ==
    IF g.isInTransition /\ ~g2.isInTransition THEN ResetHold(o)
    ELSE IF ~g.isInTransition /\ g2.isInTransition THEN ResetCond(o)
    ELSE IF ~g.isInTransition /\ g2.targetStartTime # g.targetStartTime THEN ResetHold(o)
    ELSE o

\* revealed: the handler has shown a target; t is the time it ran at
ObserveReveal(o, revealed, t) == IF revealed THEN [o EXCEPT !.revealedAt = t] ELSE o

ObservePause(o, g) ==
    [o EXCEPT !.holdPaused = IF HoldTick([g EXCEPT !.isRunning = TRUE]) /\ o.holdStreak # NULL
                             THEN @ + 1 ELSE @,
              !.condPaused = IF ConditionTick([g EXCEPT !.isRunning = TRUE]) /\ o.condStreak # NULL
                             THEN @ + 1 ELSE @]

----------------------------------------------------------------------------
(* State machine *)

SetWorld(w) ==
    /\ gameLoop' = w.gameLoop
    /\ telemetry' = w.telemetry
    /\ rafQueue' = w.rafQueue
    /\ frameQueue' = w.frameQueue
    /\ timers' = w.timers
    /\ input' = w.input
    /\ gameScreen' = w.gameScreen
    /\ UNCHANGED <<config, now, call>>

SessionInputs ==
    [reflexMode : BOOLEAN, totalTargets : 1..MaxTotalTargets, gameMode : ModeNames]

Cfg(transitionDelay, validDuration) ==
    [number_of_targets |-> NumberOfTargets, precision_range |-> PrecisionRange,
     valid_duration |-> validDuration, transition_delay |-> transitionDelay,
     default_game_mode |-> "fromZero"]

ConfigChoices == {Cfg(1, 2), Cfg(2, 1), Cfg(1, 1)}

InitGameLoop ==
    [isRunning |-> FALSE, gameMode |-> "none", reflexMode |-> FALSE,
     currentTarget |-> NULL, targetStartTime |-> 0, targetsCompleted |-> 0,
     totalTargets |-> 0, targets |-> <<>>, isInTransition |-> FALSE,
     transitionComplete |-> FALSE, transitionConditionMetTime |-> NULL,
     isInTargetRange |-> FALSE, inRangeStartTime |-> 0, validDurationMet |-> FALSE,
     gameTime |-> 0, lastFrameTime |-> 0, animationFrameId |-> NULL]

InitTelemetry ==
    [isRecording |-> FALSE, recordingInterval |-> FALSE, intervals |-> 0,
     sessionStartTime |-> NULL, buffer |-> <<>>,
     bufferSize |-> TelemetryBufferSize,
     stats |-> [min |-> 100, max |-> 0, avg |-> [num |-> 0, den |-> 1],
               totalSamples |-> 0]]

NoCall == [fn |-> "none"]

\* The progress bars of the game screen before the first update
InitGameScreen == [transitionProgress |-> 0, validProgress |-> 0]

InitCaller == [lastCall |-> "none", starts |-> 0, pauses |-> 0]

Idle == frameQueue = <<>>
Paused == caller.lastCall = "pause"

InitWith(cfg) ==
    /\ gameLoop = InitGameLoop
    /\ telemetry = InitTelemetry
    /\ config = cfg
    /\ now = 1
    /\ sinceFrame = 0
    /\ rafQueue = <<>>
    /\ frameQueue = <<>>
    /\ timers = <<>>
    /\ caller = InitCaller
    /\ call = NoCall
    /\ input = InitInput
    /\ gameScreen = InitGameScreen
    /\ obs = InitObs

Init == \E cfg \in ConfigChoices : InitWith(cfg)

StartSession(sessionData) ==
    /\ Idle
    /\ LET w == startGame([World EXCEPT !.session = caller.starts + 1], sessionData)
       IN  /\ SetWorld(w)
           /\ caller' = [caller EXCEPT !.lastCall = IF w.thrown THEN "threw" ELSE "start",
                                       !.starts = @ + 1]
    /\ obs' = [ResetCond(obs) EXCEPT !.sessionConfig = config]
    /\ UNCHANGED sinceFrame

StartWith(sessionData) ==
    /\ caller.starts + caller.pauses < MaxCalls
    /\ StartSession(sessionData)

StartGame == \E sessionData \in SessionInputs : StartWith(sessionData)

StopGame ==
    /\ Idle
    /\ caller.lastCall \notin {"none", "stop"}
    /\ SetWorld(stopGame(World))
    /\ caller' = [caller EXCEPT !.lastCall = "stop"]
    /\ UNCHANGED <<sinceFrame, obs>>

\* pauseGame returns at once unless the loop is running
PauseGame ==
    /\ Idle
    /\ gameLoop.isRunning
    /\ caller.starts + caller.pauses < MaxCalls
    /\ SetWorld(pauseGame(World))
    /\ caller' = [caller EXCEPT !.lastCall = "pause", !.pauses = @ + 1]
    /\ UNCHANGED <<sinceFrame, obs>>

\* "Resume a paused game": the caller resumes only a session it has paused
ResumeGame ==
    /\ Idle
    /\ Paused
    /\ SetWorld(resumeGame(World))
    /\ caller' = [caller EXCEPT !.lastCall = "resume"]
    /\ UNCHANGED <<sinceFrame, obs>>

\* The clock is read only by scheduled callbacks and by a resume.  A due
\* timeout fires before the clock moves on, and while an update is requested
\* the next frame begins within maxGap units.
Advance(maxGap, horizon) ==
    /\ Idle
    /\ now < horizon
    /\ rafQueue # <<>> \/ timers # <<>> \/ Paused
    /\ \A i \in DOMAIN timers : timers[i].due > now
    /\ rafQueue # <<>> => sinceFrame < maxGap
    /\ now' = now + 1
    /\ sinceFrame' = IF rafQueue = <<>> THEN 0 ELSE sinceFrame + 1
    /\ obs' = IF Paused THEN ObservePause(obs, gameLoop) ELSE obs
    /\ UNCHANGED <<gameLoop, telemetry, config, rafQueue, frameQueue, timers, caller, call,
                   input, gameScreen>>

AdvanceTime == Advance(MaxFrameGap, MaxTime)

\* An animation frame begins: the update callbacks requested so far will run
AnimationFrame ==
    /\ Idle
    /\ rafQueue # <<>>
    /\ sinceFrame > 0
    /\ frameQueue' = rafQueue
    /\ rafQueue' = <<>>
    /\ sinceFrame' = 0
    /\ UNCHANGED <<gameLoop, telemetry, config, now, timers, caller, call, input,
                   gameScreen, obs>>

Tick(pedalPosition, target, reflexDelay) ==
    /\ frameQueue # <<>>
    /\ LET w == update([World EXCEPT !.frameQueue = Tail(@)], now, pedalPosition,
                       target, reflexDelay)
       IN  /\ SetWorld(w)
           /\ obs' = ObserveReveal(
                         ObservePhase(ObserveTick(obs, gameLoop, obs.sessionConfig,
                                                  pedalPosition, now),
                                      gameLoop, w.gameLoop),
                         gameLoop.isInTransition /\ ~w.gameLoop.isInTransition, now)
    /\ UNCHANGED <<sinceFrame, caller>>

RunUpdate ==
    \E pedalPosition \in Positions, target \in Targets, reflexDelay \in ReflexDelays :
        Tick(pedalPosition, target, reflexDelay)

FireTimer(i) ==
    /\ Idle
    /\ timers[i].due <= now
    /\ \E target \in Targets :
          LET w == showNewTarget([World EXCEPT !.timers = RemoveAt(@, i)], target)
          IN  /\ SetWorld(w)
              /\ obs' = ObserveReveal(IF w.gameLoop = gameLoop THEN obs ELSE ResetHold(obs),
                                       w.gameLoop # gameLoop, now)
    /\ UNCHANGED <<sinceFrame, caller>>

FireReflexTimer == \E i \in DOMAIN timers : FireTimer(i)

Next ==
    \/ StartGame
    \/ StopGame
    \/ PauseGame
    \/ ResumeGame
    \/ AdvanceTime
    \/ AnimationFrame
    \/ RunUpdate
    \/ FireReflexTimer

Spec == Init /\ [][Next]_vars

----------------------------------------------------------------------------
(* Scenario: sessions of mode fromZero whose every tick reads position 10.  *)
(* No reflex timeout is ever scheduled, so none fires.                      *)

StartStall ==
    \E sessionData \in SessionInputs :
        /\ sessionData.gameMode = "fromZero"
        /\ StartWith(sessionData)

StallUpdate ==
    \E target \in Targets, reflexDelay \in ReflexDelays : Tick(10, target, reflexDelay)

NextStall ==
    \/ StartStall
    \/ StopGame
    \/ PauseGame
    \/ ResumeGame
    \/ AdvanceTime
    \/ AnimationFrame
    \/ StallUpdate

SpecStall == Init /\ [][NextStall]_vars

----------------------------------------------------------------------------
(* Scenario: sessions of one target in mode continuous without reflex,      *)
(* transition_delay 0, whose every tick reads the position of the target    *)
(* (the shown one, or the one the tick is about to show).  The gap between  *)
(* two ticks varies from 1 to ScenarioFrameGap.                             *)

InitSingle == InitWith(Cfg(0, ScenarioValidDuration))

StartSingle ==
    /\ caller.starts = 0
    /\ StartWith([reflexMode |-> FALSE, totalTargets |-> 1, gameMode |-> "continuous"])

AdvanceSingle == Advance(ScenarioFrameGap, ScenarioHorizon)

TrackUpdate ==
    \E target \in Targets, reflexDelay \in ReflexDelays :
        Tick(IF gameLoop.currentTarget = NULL THEN target ELSE gameLoop.currentTarget,
             target, reflexDelay)

NextSingle ==
    \/ StartSingle
    \/ AdvanceSingle
    \/ AnimationFrame
    \/ TrackUpdate

SpecSingle == InitSingle /\ [][NextSingle]_vars

----------------------------------------------------------------------------
(* Scenario: sessions of every mode while App.input is not there *)

NoInputUpdate ==
    \E target \in Targets, reflexDelay \in ReflexDelays :
        Tick(readPedalPosition(NULL), target, reflexDelay)

NextNoInput ==
    \/ StartGame
    \/ StopGame
    \/ PauseGame
    \/ ResumeGame
    \/ AdvanceTime
    \/ AnimationFrame
    \/ NoInputUpdate
    \/ FireReflexTimer

SpecNoInput == Init /\ [][NextNoInput]_vars

----------------------------------------------------------------------------
(* Scenario: sessions started with an invalid configuration: a target count *)
(* of zero or below, a tolerance of 100, or a negative duration.            *)

InvalidConfigs ==
    {[Cfg(1, 1) EXCEPT !.precision_range = 100], Cfg(1, -1), Cfg(-1, 1)}

InvalidSessionInputs ==
    [reflexMode : BOOLEAN, totalTargets : {0, -1}, gameMode : ModeNames]

ValidConfig(cfg) ==
    /\ cfg.precision_range >= 0
    /\ cfg.precision_range < 100
    /\ cfg.valid_duration >= 0
    /\ cfg.transition_delay >= 0

InitInvalid == \E cfg \in InvalidConfigs \cup {Cfg(1, 1)} : InitWith(cfg)

StartInvalid ==
    \E sessionData \in SessionInputs \cup InvalidSessionInputs :
        /\ sessionData.totalTargets <= 0 \/ ~ValidConfig(config)
        /\ StartWith(sessionData)

AdvanceInvalid == Advance(MaxFrameGap, InvalidHorizon)

NextInvalid ==
    \/ StartInvalid
    \/ StopGame
    \/ AdvanceInvalid
    \/ AnimationFrame
    \/ RunUpdate
    \/ FireReflexTimer

SpecInvalid == InitInvalid /\ [][NextInvalid]_vars

----------------------------------------------------------------------------
(* Scenario: sessions started with a mode name that is none of the modes *)

UnknownModeNames == {"", "unknown", "From 0%", "getMode", "toString"}

StartUnknownMode ==
    \E sessionData \in [reflexMode : BOOLEAN, totalTargets : 1..MaxTotalTargets,
                        gameMode : UnknownModeNames] :
        StartWith(sessionData)

NextUnknownMode ==
    \/ StartUnknownMode
    \/ StopGame
    \/ PauseGame
    \/ ResumeGame
    \/ AdvanceTime
    \/ AnimationFrame
    \/ RunUpdate
    \/ FireReflexTimer

SpecUnknownMode == Init /\ [][NextUnknownMode]_vars

----------------------------------------------------------------------------
(* Scenario: the settings are changed while a session is running *)

SettingsChoices ==
    {[Cfg(transitionDelay, validDuration) EXCEPT !.precision_range = precisionRange] :
        transitionDelay \in {1, 2}, validDuration \in {1, 2},
        precisionRange \in {PrecisionRange, 50}}

\* An input event of a settings slider: the listener stores the value
ChangeSetting ==
    /\ Idle
    /\ gameLoop.isRunning
    /\ \E cfg \in SettingsChoices :
          /\ cfg # config
          /\ cfg \in {[config EXCEPT !.precision_range = cfg.precision_range],
                      [config EXCEPT !.valid_duration = cfg.valid_duration],
                      [config EXCEPT !.transition_delay = cfg.transition_delay]}
          /\ config' = cfg
    /\ UNCHANGED <<gameLoop, telemetry, now, sinceFrame, rafQueue, frameQueue,
                   timers, caller, call, input, gameScreen, obs>>

AdvanceSettings == Advance(MaxFrameGap, SettingsHorizon)

StartSettings ==
    /\ caller.starts = 0
    /\ StartGame

NextSettings ==
    \/ StartSettings
    \/ ChangeSetting
    \/ AdvanceSettings
    \/ AnimationFrame
    \/ RunUpdate
    \/ FireReflexTimer

SpecSettings == Init /\ [][NextSettings]_vars

----------------------------------------------------------------------------
(* Scenario: the recorder alone, with a buffer capacity of 1 to             *)
(* MaxBufferSize.  obs.samples is every sample recorded since the recording *)
(* began.                                                                   *)

InitRecorder ==
    /\ \E size \in 1..MaxBufferSize : telemetry = [InitTelemetry EXCEPT !.bufferSize = size]
    /\ gameLoop = InitGameLoop
    /\ config = Cfg(1, 1)
    /\ now = 1
    /\ sinceFrame = 0
    /\ rafQueue = <<>>
    /\ frameQueue = <<>>
    /\ timers = <<>>
    /\ caller = InitCaller
    /\ call = NoCall
    /\ input = InitInput
    /\ gameScreen = InitGameScreen
    /\ obs = InitObs

StartRecording ==
    /\ SetWorld(startRecording(World))
    /\ obs' = IF telemetry.isRecording THEN obs ELSE [obs EXCEPT !.samples = <<>>]
    /\ UNCHANGED <<sinceFrame, caller>>

StopRecording ==
    /\ SetWorld(stopRecording(World))
    /\ UNCHANGED <<sinceFrame, caller, obs>>

\* The sampling interval fires
RecordSample ==
    /\ telemetry.intervals > 0
    /\ Len(obs.samples) < MaxSamples
    /\ \E pedalPosition \in Positions :
          /\ SetWorld(recordSample(World, pedalPosition))
          /\ obs' = [obs EXCEPT !.samples = Append(@, Sample(World, pedalPosition))]
    /\ UNCHANGED <<sinceFrame, caller>>

NextRecorder ==
    \/ StartRecording
    \/ StopRecording
    \/ RecordSample

SpecRecorder == InitRecorder /\ [][NextRecorder]_vars

----------------------------------------------------------------------------
(* Scenario: the mode predicates called with every mode and every whole *)
(* position from 0 to 100, in any order                                 *)

CallOnly == UNCHANGED <<gameLoop, telemetry, config, now, sinceFrame, rafQueue,
                        frameQueue, timers, caller, input, gameScreen, obs>>

CheckTransitionCondition ==
    /\ \E modeName \in ModeNames, pedalPosition \in 0..100 :
          call' = [fn |-> "checkTransitionCondition", modeName |-> modeName,
                   pedalPosition |-> pedalPosition,
                   result |-> checkTransitionCondition(modeName, pedalPosition)]
    /\ CallOnly

SpecModePredicates == Init /\ [][CheckTransitionCondition]_vars

----------------------------------------------------------------------------
(* Scenario: the in-range tests applied to every whole position from 0 to   *)
(* 100, some targets and some tolerances: the hold phase's test is read off *)
(* the first tick of a shown target, which sets isInTargetRange.            *)

ShownTarget(target, range) ==
    [World EXCEPT !.gameLoop.isRunning = TRUE,
                  !.gameLoop.isInTransition = FALSE,
                  !.gameLoop.currentTarget = target,
                  !.gameLoop.isInTargetRange = FALSE,
                  !.gameLoop.validDurationMet = FALSE,
                  !.config.precision_range = range]

CheckInRange ==
    /\ \E pedalPosition \in 0..100, target \in {10, 50, 90}, range \in {0, 5, 10} :
          call' = [fn |-> "isInRange", pedalPosition |-> pedalPosition,
                   target |-> target, range |-> range,
                   hold |-> updateTargetPhase(ShownTarget(target, range),
                                              pedalPosition).gameLoop.isInTargetRange,
                   within |-> isPedalWithinRange(pedalPosition, target, range)]
    /\ CallOnly

SpecInRange == Init /\ [][CheckInRange]_vars

----------------------------------------------------------------------------
(* Scenario: the input handler alone, no session running.  Gamepads of one  *)
(* or two axes come and go, the input loop polls them, arrow keys go down   *)
(* and up, the key repeat interval fires, and the position is forced.       *)
(* obs.inputOps counts the operations.                                      *)

ForcedPositions == {-50, 0, 50, 100, 150, NaN}

\* What navigator.getGamepads() reports at the active index
AxesChoices ==
    IF input.activeGamepad = NULL THEN {<<>>}
    ELSE LET n == input.gamepads[input.activeGamepad]
         IN  IF n = 0 THEN {<<>>} ELSE [1..n -> RawValues]

InputBudget == obs.inputOps < MaxInputOps

\* obs.polled holds the axes the input loop's last frame was given, and is
\* empty after every other operation
InputOp(w) ==
    /\ SetWorld(w)
    /\ obs' = [obs EXCEPT !.inputOps = @ + 1, !.polled = {}]
    /\ UNCHANGED <<sinceFrame, caller>>

GamepadConnected ==
    \E index \in GamepadIndices, axisCount \in AxisCounts :
        /\ InputBudget
        /\ input.gamepads[index] = 0
        /\ InputOp(onGamepadConnected(World, index, axisCount))

GamepadDisconnected ==
    \E index \in GamepadIndices :
        /\ InputBudget
        /\ input.gamepads[index] # 0
        /\ InputOp(onGamepadDisconnected(World, index))

\* An animation frame of the input loop
UpdateInputs ==
    /\ InputBudget
    /\ \E axes \in AxesChoices :
          /\ SetWorld(updateInput(World, axes))
          /\ obs' = [obs EXCEPT !.inputOps = @ + 1, !.polled = {axes}]
    /\ UNCHANGED <<sinceFrame, caller>>

KeyDown == InputBudget /\ \E key \in Keys : InputOp(onKeyDown(World, key))

KeyUp == InputBudget /\ \E key \in Keys : InputOp(onKeyUp(World, key))

KeyRepeat == InputBudget /\ input.keyRepeatTimer /\ InputOp(keyRepeat(World))

SelectAxis ==
    /\ InputBudget
    /\ input.activeGamepad # NULL
    /\ \E i \in 0..(input.gamepads[input.activeGamepad] - 1) :
          InputOp(selectAxis(World, i))

EnableKeyboardInput == InputBudget /\ InputOp(enableKeyboardInput(World))

EnableGamepadInput == InputBudget /\ InputOp(enableGamepadInput(World))


\* What navigator.getGamepads() reports: the devices the handler knows, as
\* they are or already gone, and devices it has not been told of yet
ReportedGamepads ==
    {reported \in [GamepadIndices -> {0} \cup AxisCounts] :
        \A i \in GamepadIndices :
            input.gamepads[i] # 0 => reported[i] \in {0, input.gamepads[i]}}

\* Entering the main menu
CheckForGamepads ==
    /\ InputBudget
    /\ \E reported \in ReportedGamepads : InputOp(checkForGamepads(World, reported))

UseGamepadButton ==
    /\ InputBudget
    /\ \E reported \in ReportedGamepads : InputOp(useGamepadButton(World, reported))

\* The dropdown lists the gamepads the handler holds
SelectGamepad ==
    /\ InputBudget
    /\ \E value \in {i \in GamepadIndices : input.gamepads[i] # 0} :
          /\ value # input.activeGamepad
          /\ InputOp(selectGamepad(World, value))

ForcePedalPosition ==
    /\ InputBudget
    /\ \E position \in ForcedPositions : InputOp(forcePedalPosition(World, position))

NextInput ==
    \/ GamepadConnected
    \/ GamepadDisconnected
    \/ UpdateInputs
    \/ KeyDown
    \/ KeyUp
    \/ KeyRepeat
    \/ SelectAxis
    \/ EnableKeyboardInput
    \/ EnableGamepadInput
    \/ ForcePedalPosition
    \/ CheckForGamepads
    \/ UseGamepadButton
    \/ SelectGamepad

SpecInput == Init /\ [][NextInput]_vars

----------------------------------------------------------------------------
(* Scenario: the scoring functions applied to the values a finished session *)
(* hands them.  Times are in seconds: the total time is the difference of   *)
(* two Date.now() readings, which is negative when the wall clock was set   *)
(* back in between.  Each behaviour makes one call.                         *)

ScoreArrays ==
    UNION {[1..n -> {0, Fixed(1), Fixed(3), Fixed(10)}] : n \in 0..MaxTargetRecords}

CallOverallScore(counts) ==
    /\ \E totalTime \in {Fixed(-10), 0, Fixed(5), Fixed(10), Fixed(1000)},
          avgReactionTime \in {0, 50, Fixed(1), Fixed(50)},
          avgPrecision \in {0, 250, Fixed(50), Fixed(80)},
          consistencyScore \in {0, Fixed(50), Fixed(100)},
          numTargets \in counts :
          call' = [fn |-> "calculateOverallScore", totalTime |-> totalTime,
                   avgReactionTime |-> avgReactionTime, avgPrecision |-> avgPrecision,
                   consistencyScore |-> consistencyScore, numTargets |-> numTargets,
                   result |-> calculateOverallScore(totalTime, avgReactionTime,
                                                    avgPrecision, consistencyScore,
                                                    Fixed(numTargets))]
    /\ CallOnly

CalculateOverallScore == call = NoCall /\ CallOverallScore(1..MaxTargetRecords)

CallConsistency(arrays) ==
    /\ \E reactionTimes \in arrays, precisionValues \in arrays :
          call' = [fn |-> "calculateConsistency", reactionTimes |-> reactionTimes,
                   precisionValues |-> precisionValues,
                   result |-> calculateConsistency(reactionTimes, precisionValues)]
    /\ CallOnly

CalculateConsistency == call = NoCall /\ CallConsistency(ScoreArrays)

NextScoring ==
    \/ CalculateOverallScore
    \/ CalculateConsistency

SpecScoring == Init /\ [][NextScoring]_vars

----------------------------------------------------------------------------
(* Scenario: the scoring functions applied to degenerate input: a session   *)
(* without targets, empty arrays, a target count of zero.  Each behaviour   *)
(* makes one call.                                                          *)

EmptySessions ==
    [startTime : {1, 1001, 5001}, endTime : {1, 1001, 5001}, targets : {<<>>},
     scores : {InitScores}]

FinalScoresOfNone ==
    /\ call = NoCall
    /\ \E sessionData \in EmptySessions :
          call' = [fn |-> "calculateFinalScores", sessionData |-> sessionData,
                   result |-> calculateFinalScores(World, sessionData, <<>>)]
    /\ CallOnly

AverageOfNone ==
    /\ call = NoCall
    /\ call' = [fn |-> "calculateAverage", values |-> <<>>,
                result |-> calculateAverage(<<>>)]
    /\ CallOnly

StandardDeviationOfNone ==
    /\ call = NoCall
    /\ call' = [fn |-> "calculateStandardDeviation", values |-> <<>>,
                result |-> calculateStandardDeviation(<<>>, calculateAverage(<<>>))]
    /\ CallOnly

ConsistencyOfNone == call = NoCall /\ CallConsistency({<<>>})

OverallScoreOfNone == call = NoCall /\ CallOverallScore({0})

NextDegenerate ==
    \/ FinalScoresOfNone
    \/ AverageOfNone
    \/ StandardDeviationOfNone
    \/ ConsistencyOfNone
    \/ OverallScoreOfNone

SpecDegenerate == Init /\ [][NextDegenerate]_vars

----------------------------------------------------------------------------
(* Scenario: the sessions of the base specification with one configuration, *)
(* where a paused session too may be replaced by a new one                  *)

StartPaused ==
    /\ Paused
    /\ \E sessionData \in SessionInputs : StartSession(sessionData)

NextRestart ==
    \/ Next
    \/ StartPaused

InitRestart == InitWith(Cfg(1, 1))

SpecRestart == InitRestart /\ [][NextRestart]_vars


----------------------------------------------------------------------------
(* Scenario: the single-target sessions, with the target of every reveal    *)
(* drawn from every value of Math.random() in hundredths.                   *)

RevealUpdate ==
    \E random \in 0..99, reflexDelay \in ReflexDelays :
        Tick(IF gameLoop.currentTarget = NULL
             THEN generateRandomTarget(random)
             ELSE gameLoop.currentTarget,
             generateRandomTarget(random), reflexDelay)

NextReveal ==
    \/ StartSingle
    \/ AdvanceSingle
    \/ AnimationFrame
    \/ RevealUpdate

SpecReveal == InitSingle /\ [][NextReveal]_vars


----------------------------------------------------------------------------
(* Scenario: the recorder with its default capacity, sampled up to          *)
(* MaxSamples times and annotated up to MaxMarks times.  call is the last   *)
(* annotation made and its number.                                          *)

InitAnnotate == InitWith(Cfg(1, 1))

MarkBudget == IF call = NoCall THEN TRUE ELSE call.seq < MaxMarks

MarkTarget ==
    /\ MarkBudget
    /\ \E targetValue \in {NULL, 50}, isTransition \in BOOLEAN :
          /\ telemetry' = markTarget(World, targetValue, isTransition).telemetry
          /\ call' = [fn |-> "markTarget", targetValue |-> targetValue,
                      isTransition |-> isTransition,
                      seq |-> IF call = NoCall THEN 1 ELSE call.seq + 1]
    /\ UNCHANGED <<gameLoop, config, now, sinceFrame, rafQueue, frameQueue, timers,
                   caller, input, gameScreen, obs>>

MarkInRange ==
    /\ MarkBudget
    /\ \E inRange \in BOOLEAN :
          /\ telemetry' = markInRange(World, inRange).telemetry
          /\ call' = [fn |-> "markInRange", inRange |-> inRange,
                      seq |-> IF call = NoCall THEN 1 ELSE call.seq + 1]
    /\ UNCHANGED <<gameLoop, config, now, sinceFrame, rafQueue, frameQueue, timers,
                   caller, input, gameScreen, obs>>

\* The sampling interval fires while the pedal is released or half pressed
SamplePedal ==
    /\ telemetry.intervals > 0
    /\ Len(obs.samples) < MaxSamples
    /\ \E pedalPosition \in {0, 50} :
          /\ SetWorld(recordSample(World, pedalPosition))
          /\ obs' = [obs EXCEPT !.samples = Append(@, Sample(World, pedalPosition))]
    /\ UNCHANGED <<sinceFrame, caller>>

NextAnnotate ==
    \/ StartRecording
    \/ StopRecording
    \/ SamplePedal
    \/ MarkTarget
    \/ MarkInRange

SpecAnnotate == InitAnnotate /\ [][NextAnnotate]_vars


----------------------------------------------------------------------------
(* Scenario: the callers of the recorder's switch together: sessions are    *)
(* started, also over a paused one, stopped, paused and resumed while the   *)
(* game screen redraws on every tick, the keyboard is enabled and the input *)
(* loop polls it.  A start with a mode name that is no mode throws and      *)
(* leaves the game screen without a recording.                              *)

KeyboardEnabled ==
    /\ Idle
    /\ ~input.keyboardEnabled
    /\ SetWorld(enableKeyboardInput(World))
    /\ UNCHANGED <<sinceFrame, caller, obs>>

KeyboardPolled ==
    /\ Idle
    /\ input.keyboardEnabled
    /\ SetWorld(updateInput(World, <<>>))
    /\ UNCHANGED <<sinceFrame, caller, obs>>

NextRecording ==
    \/ StartGame
    \/ StartUnknownMode
    \/ StartPaused
    \/ StopGame
    \/ PauseGame
    \/ ResumeGame
    \/ AdvanceSettings
    \/ AnimationFrame
    \/ RunUpdate
    \/ FireReflexTimer
    \/ KeyboardEnabled
    \/ KeyboardPolled

SpecRecording == InitRestart /\ [][NextRecording]_vars


----------------------------------------------------------------------------
(* Scenario: the single-target sessions while the recorder samples the      *)
(* pedal, followed by the results screen, which computes the final scores   *)
(* from the loop's records and the recorder's buffer.  The session's        *)
(* startTime is the clock at the start, where the recording began too.      *)

EnterResultsScreen ==
    /\ call = NoCall
    /\ Idle
    /\ caller.starts > 0
    /\ ~gameLoop.isRunning
    /\ gameLoop.targetsCompleted >= gameLoop.totalTargets
    /\ LET sessionData == [startTime |-> telemetry.sessionStartTime, endTime |-> now,
                           targets |-> gameLoop.targets, scores |-> InitScores]
           deviations == [i \in DOMAIN gameLoop.targets |->
                             calculateAccuracy(World, gameLoop.targets[i].targetValue, 0,
                                               0 + gameLoop.targets[i].completionTime)]
       IN  call' = [fn |-> "calculateFinalScores", sessionData |-> sessionData,
                    scores |-> calculateFinalScores(World, sessionData, deviations).scores]
    /\ CallOnly

\* The sampling interval fires between two frames, up to MaxSessionSamples
\* times
SampleSession ==
    /\ Idle
    /\ telemetry.intervals > 0
    /\ Len(obs.samples) < MaxSessionSamples
    /\ \E pedalPosition \in {0, 50} :
          /\ SetWorld(recordSample(World, pedalPosition))
          /\ obs' = [obs EXCEPT !.samples = Append(@, Sample(World, pedalPosition))]
    /\ UNCHANGED <<sinceFrame, caller>>

NextPrecision ==
    \/ StartSingle
    \/ AdvanceSingle
    \/ AnimationFrame
    \/ TrackUpdate
    \/ SampleSession
    \/ EnterResultsScreen

SpecPrecision == InitSingle /\ [][NextPrecision]_vars

----------------------------------------------------------------------------
(* Claims *)

TargetCompleted == Len(gameLoop'.targets) = Len(gameLoop.targets) + 1

\* A running update completes the transition: the condition timer has reached
\* the delay and completeTransition has acted (reveal now, or reflex timeout)
TransitionCompleted ==
    /\ frameQueue # <<>>
    /\ ConditionTick(gameLoop)
    /\ gameLoop'.transitionComplete \/ ~gameLoop'.isInTransition

\* C1: a target is completed only by a tick at which the position has been in
\* range at every tick of the shown target for at least validDuration; an
\* out-of-range tick restarts the count, so time in range before it is not
\* credited.
HoldTimerResetLaw ==
    [][TargetCompleted =>
          /\ obs'.holdStreak # NULL
          /\ now' - obs'.holdStreak >= config.valid_duration]_vars

\* C1 witness: a target completed after a run in range of positive length
\* was interrupted by an out-of-range tick
HoldCompletedAfterExcursion ==
    /\ gameLoop.validDurationMet
    /\ obs.holdBroken
    /\ obs.holdStreak # NULL

\* C2: an update completes the transition only when the mode's condition has
\* been satisfied at every tick for at least transitionDelay; a tick at which
\* it is not satisfied restarts the count.
TransitionTimerResetLaw ==
    [][TransitionCompleted =>
          /\ obs'.condStreak # NULL
          /\ now' - obs'.condStreak >= config.transition_delay]_vars

\* C2 witness: a transition completed (reflex wait in progress) after a run of
\* satisfied ticks of positive length was interrupted
TransitionCompletedAfterExcursion ==
    /\ gameLoop.isInTransition
    /\ gameLoop.transitionComplete
    /\ obs.condBroken
    /\ obs.condStreak # NULL

SessionDone == caller.starts > 0 /\ gameLoop.targetsCompleted >= gameLoop.totalTargets

\* C3: once totalTargets holds are completed the session holds exactly
\* totalTargets records and the loop is not running, and no tick, timeout or
\* passage of time (any step that is not a call by the caller) changes the
\* loop's state afterwards.
SessionCompletion ==
    /\ [](SessionDone =>
            /\ Len(gameLoop.targets) = gameLoop.totalTargets
            /\ gameLoop.targetsCompleted = gameLoop.totalTargets
            /\ ~gameLoop.isRunning
            /\ ~gameLoop.isInTransition
            /\ gameLoop.validDurationMet)
    /\ [][(SessionDone /\ caller' = caller) =>
            /\ gameLoop'.targets = gameLoop.targets
            /\ gameLoop'.targetsCompleted = gameLoop.targetsCompleted
            /\ gameLoop'.isRunning = gameLoop.isRunning
            /\ gameLoop'.isInTransition = gameLoop.isInTransition
            /\ gameLoop'.validDurationMet = gameLoop.validDurationMet]_vars

\* C3 witness: a session is complete and the update requested by the
\* completing tick has been delivered since
CompletedSessionTicked ==
    /\ SessionDone
    /\ gameLoop.animationFrameId # NULL
    /\ rafQueue = <<>>
    /\ frameQueue = <<>>

\* C4 (as claimed): a reveal timeout scheduled by a session that has since been
\* stopped or replaced changes nothing of the sequencer when it fires.
StaleRevealHasNoEffect ==
    [][\A i \in DOMAIN timers :
          (FireTimer(i) /\ (timers[i].session # caller.starts \/ caller.lastCall = "stop"))
              => gameLoop' = gameLoop]_vars

\* C5 (as claimed): after a stopGame call, whatever the state before it, the
\* recorder is not recording and its sampling interval is cleared.
StopHaltsSampling ==
    caller.lastCall = "stop" => ~telemetry.isRecording /\ ~telemetry.recordingInterval

\* C6 (as claimed): time spent paused does not count toward validDuration or
\* transitionDelay.
PauseDoesNotConsumeTimers ==
    /\ [][TargetCompleted =>
             now' - obs'.holdStreak - obs'.holdPaused >= config.valid_duration]_vars
    /\ [][TransitionCompleted =>
             now' - obs'.condStreak - obs'.condPaused >= config.transition_delay]_vars

\* C7: in mode fromZero with the position held at 10 the loop stays in the
\* transition phase: the condition timer never starts, the transition never
\* completes, no reveal is scheduled and no target is shown or completed.
ReleaseToZeroStall ==
    caller.starts > 0 =>
        /\ gameLoop.isInTransition
        /\ ~gameLoop.transitionComplete
        /\ gameLoop.transitionConditionMetTime = NULL
        /\ gameLoop.currentTarget = NULL
        /\ gameLoop.targetsCompleted = 0
        /\ timers = <<>>

\* C7 witness: one session has been ticked at position 10 up to MaxTime
StalledUntilMaxTime ==
    /\ caller.starts = 1
    /\ caller.lastCall = "start"
    /\ gameLoop.isRunning
    /\ gameLoop.lastFrameTime = MaxTime

\* C8 (as claimed): the single-target session yields one record whose
\* reactionTime is at most one tick and whose completionTime is within one
\* tick of validDuration.
SingleTargetWithinOneTick ==
    /\ Len(gameLoop.targets) <= 1
    /\ \A i \in DOMAIN gameLoop.targets :
          /\ gameLoop.targets[i].reactionTime >= 0
          /\ gameLoop.targets[i].reactionTime <= ScenarioFrameGap
          /\ gameLoop.targets[i].completionTime >= ScenarioValidDuration
          /\ gameLoop.targets[i].completionTime <= ScenarioValidDuration + ScenarioFrameGap

\* C8 (amended): the single-target session yields one record, for the target
\* shown, whose reactionTime is at most one tick and whose completionTime is
\* reactionTime plus a hold of validDuration to within one tick (so less than
\* validDuration plus two ticks); the record exists once validDuration plus
\* two ticks have passed since the reveal, and the loop stops with it.
SingleTargetWithinTwoTicks ==
    /\ Len(gameLoop.targets) <= 1
    /\ \A i \in DOMAIN gameLoop.targets :
          /\ gameLoop.targets[i].targetValue = gameLoop.currentTarget
          /\ gameLoop.targets[i].reactionTime >= 0
          /\ gameLoop.targets[i].reactionTime <= ScenarioFrameGap
          /\ gameLoop.targets[i].completionTime - gameLoop.targets[i].reactionTime
                >= ScenarioValidDuration
          /\ gameLoop.targets[i].completionTime - gameLoop.targets[i].reactionTime
                < ScenarioValidDuration + ScenarioFrameGap
    /\ Len(gameLoop.targets) = 1 => ~gameLoop.isRunning
    /\ (/\ gameLoop.currentTarget # NULL
        /\ now - gameLoop.targetStartTime >= ScenarioValidDuration + 2 * ScenarioFrameGap)
           => Len(gameLoop.targets) = 1

\* C8 witness: the record of a session whose completionTime is the longest
\* the tick gaps allow
SlowestSingleRecord ==
    /\ Len(gameLoop.targets) = 1
    /\ ~gameLoop.isRunning
    /\ gameLoop.targets[1].completionTime = ScenarioValidDuration + 2 * ScenarioFrameGap - 1

\* C9: targetsCompleted is between 0 and totalTargets, equals the number of
\* records, and never decreases within a session.
TargetsCompletedBounded ==
    /\ [](/\ 0 <= gameLoop.targetsCompleted
          /\ gameLoop.targetsCompleted <= gameLoop.totalTargets
          /\ Len(gameLoop.targets) = gameLoop.targetsCompleted)
    /\ [][caller'.starts = caller.starts =>
             gameLoop'.targetsCompleted >= gameLoop.targetsCompleted]_vars

\* C9 witness: every target of a session of MaxTotalTargets targets completed
AllTargetsCompleted ==
    /\ gameLoop.totalTargets = MaxTotalTargets
    /\ gameLoop.targetsCompleted = MaxTotalTargets

\* The Holding phase: a target is shown and not yet completed, in a session
\* that is running or paused
HoldingPhase ==
    /\ ~gameLoop.isInTransition
    /\ ~gameLoop.validDurationMet
    /\ gameLoop.isRunning \/ Paused

\* C10 (as claimed): currentTarget is non-null only in the Holding phase; it
\* is null in every transition and once the session is complete.
CurrentTargetOnlyWhileHolding == gameLoop.currentTarget # NULL => HoldingPhase

\* C11 (as claimed): while the input source is missing, a started session
\* stays in the transition phase and no target is generated, in every mode.
FailClosedWithoutInput ==
    caller.starts > 0 => gameLoop.isInTransition /\ gameLoop.currentTarget = NULL

\* C12 (as claimed): a startGame call with an invalid configuration leaves no
\* running session: the loop is not running, no transition has started, no
\* update is requested and the recorder is not started.
InvalidStartRejected ==
    [][caller'.starts = caller.starts + 1 =>
          /\ ~gameLoop'.isRunning
          /\ ~gameLoop'.isInTransition
          /\ gameLoop'.animationFrameId = NULL
          /\ ~telemetry'.isRecording]_vars

\* C13 (as claimed): a startGame call with a mode name that is none of the
\* modes selects fromZero and starts the session in the transition phase
\* without an exception.
UnknownModeFallsBack ==
    [][caller'.starts = caller.starts + 1 =>
          /\ caller'.lastCall = "start"
          /\ gameLoop'.gameMode = "fromZero"
          /\ gameLoop'.isRunning
          /\ gameLoop'.isInTransition]_vars

\* C14 (as claimed): a running session keeps the tolerance, hold duration and
\* transition delay it was started with: a target or a transition completes
\* only after the position has been in range by that tolerance (or the
\* condition satisfied) at every tick for that duration.
ConfigIsSessionSnapshot ==
    /\ [][TargetCompleted =>
             /\ obs'.holdStreak # NULL
             /\ now' - obs'.holdStreak >= obs.sessionConfig.valid_duration]_vars
    /\ [][TransitionCompleted =>
             /\ obs'.condStreak # NULL
             /\ now' - obs'.condStreak >= obs.sessionConfig.transition_delay]_vars

LastN(s, n) == SubSeq(s, Max(1, Len(s) - n + 1), Len(s))

\* C15: the buffer never holds more than bufferSize samples, and it is the
\* most recent bufferSize samples recorded since startRecording, in the order
\* recorded: after bufferSize + k insertions the k oldest are gone.
RingBufferFIFO ==
    /\ Len(telemetry.buffer) <= telemetry.bufferSize
    /\ telemetry.buffer = LastN(obs.samples, telemetry.bufferSize)

\* C15 witness: two samples more than the largest capacity were recorded
TwoSamplesEvicted ==
    /\ telemetry.bufferSize = MaxBufferSize
    /\ Len(obs.samples) = MaxBufferSize + 2
    /\ Len(telemetry.buffer) = MaxBufferSize

\* C16: for every position from 0 to 100, after any calls before it, the
\* transition check of fromZero is true iff position <= 2, that of fromHundred
\* iff position >= 98, and that of continuous always.
ModePredicates ==
    call.fn = "checkTransitionCondition" =>
        call.result = CASE call.modeName = "fromZero" -> call.pedalPosition <= 2
                        [] call.modeName = "fromHundred" -> call.pedalPosition >= 98
                        [] call.modeName = "continuous" -> TRUE

\* C16 witness: fromZero was asked about position 2, the last it accepts
ReleaseBoundaryChecked ==
    /\ call.fn = "checkTransitionCondition"
    /\ call.modeName = "fromZero"
    /\ call.pedalPosition = 2
    /\ call.result

\* C17: the hold phase's in-range test and isPedalWithinRange are true iff
\* |position - target| <= range, the boundary positions included.
InclusiveTolerance ==
    call.fn = "isInRange" =>
        /\ call.hold = (Abs(call.pedalPosition - call.target) <= call.range)
        /\ call.within = (Abs(call.pedalPosition - call.target) <= call.range)

\* C17 witness: a position exactly range above the target was tested
UpperBoundaryInRange ==
    /\ call.fn = "isInRange"
    /\ call.range > 0
    /\ call.pedalPosition = call.target + call.range
    /\ call.hold
    /\ call.within

(* C18: after any sequence of input operations, getPedalPosition returns a *)
(* value from 0 to 100                                                      *)
PedalPositionInRange == getPedalPosition(World) \in 0..100

(* C19: the overall score is in [0,100] for every input to                 *)
(* calculateOverallScore                                                    *)
OverallScoreInRange ==
    call.fn = "calculateOverallScore" =>
        call.result \in {Fixed(n) : n \in 0..100}

(* C20: the consistency score is a whole number from 0 to 100 for all arrays *)
(* of reaction times and precision values that are not negative, arrays of   *)
(* one element and of equal elements included; when neither array varies the *)
(* score is 100                                                              *)
ConsistencyScoreInRange ==
    call.fn = "calculateConsistency" =>
        /\ call.result \in {Fixed(n) : n \in 0..100}
        /\ (/\ \A i, j \in DOMAIN call.reactionTimes :
                  call.reactionTimes[i] = call.reactionTimes[j]
            /\ \A i, j \in DOMAIN call.precisionValues :
                  call.precisionValues[i] = call.precisionValues[j])
           => call.result = Fixed(100)

EqualArraysScored ==
    /\ call.fn = "calculateConsistency"
    /\ Len(call.reactionTimes) = MaxTargetRecords
    /\ Len(call.precisionValues) = 1
    /\ \A i \in DOMAIN call.reactionTimes : call.reactionTimes[i] = Fixed(3)
    /\ call.result = Fixed(100)

(* C21: scoring a session without targets, or calling the averaging,       *)
(* consistency or overall-score helper with empty arrays or a target count  *)
(* of zero, yields no NaN and no infinite value                             *)
Finite(x) == x # NaN /\ ~IsInfinite(x)

DegenerateScoresFinite ==
    /\ call.fn \in {"calculateAverage", "calculateStandardDeviation",
                    "calculateConsistency", "calculateOverallScore"}
          => Finite(call.result)
    /\ call.fn = "calculateFinalScores"
          => \A field \in DOMAIN call.result.scores : call.result.scores[field] = 0

(* C22: the transition progress and the hold progress handed to the game   *)
(* screen are each a number from 0 to 1, for a transition delay or a valid  *)
(* duration of zero too; the transition progress is 0 when the sequencer is *)
(* not in transition and the hold progress is 0 when it is                  *)
ProgressInUnitInterval ==
    /\ gameScreen.transitionProgress \in 0..Fixed(1)
    /\ gameScreen.validProgress \in 0..Fixed(1)
    /\ ~gameLoop.isInTransition => gameScreen.transitionProgress = 0
    /\ gameLoop.isInTransition => gameScreen.validProgress = 0

\* A handler reveals a target: it ends the transition phase
TargetRevealed == gameLoop.isInTransition /\ ~gameLoop'.isInTransition

(* C23: a target is revealed only after the mode's transition condition has *)
(* been satisfied at every tick for at least transitionDelay within the     *)
(* current transition phase of the same session                             *)
RevealPrecondition ==
    [][TargetRevealed =>
          /\ gameLoop'.currentTarget # NULL
          /\ obs'.condStreak # NULL
          /\ now' - obs'.condStreak >= config.transition_delay]_vars

(* C24: the phases alternate: a target is revealed only out of a transition *)
(* phase, a shown target is not replaced by another before it is completed, *)
(* and after every completion but the last the sequencer is in transition    *)
(* with the condition timer cleared and transitionComplete false             *)
PhaseAlternation ==
    [][/\ (~gameLoop.isInTransition /\ ~gameLoop'.isInTransition)
              => /\ gameLoop'.currentTarget = gameLoop.currentTarget
                 /\ gameLoop'.targetStartTime = gameLoop.targetStartTime
       /\ (gameLoop'.currentTarget # NULL /\ gameLoop.currentTarget = NULL)
              => gameLoop.isInTransition
       /\ (TargetCompleted /\ gameLoop'.targetsCompleted < gameLoop'.totalTargets)
              => /\ gameLoop'.isInTransition
                 /\ gameLoop'.transitionConditionMetTime = NULL
                 /\ ~gameLoop'.transitionComplete]_vars

\* A handler schedules a reveal timeout
RevealScheduled == Len(timers') > Len(timers)

(* C25: in reflex mode the reflex delay starts only when the condition timer *)
(* has reached transitionDelay, its length lies between min_reflex_delay and *)
(* max_reflex_delay, one reveal is scheduled per completed transition, and   *)
(* the target is revealed by that timeout once the delay has passed and not  *)
(* before, whatever the ticks in between read; with reflex mode off the tick *)
(* that completes the transition reveals the target                          *)
ReflexDelaySequential ==
    [][/\ RevealScheduled =>
              /\ TransitionCompleted
              /\ gameLoop.reflexMode
              /\ obs'.condStreak # NULL
              /\ now - obs'.condStreak >= config.transition_delay
              /\ Len(timers') = Len(timers) + 1
              /\ timers'[Len(timers')].due - now \in MinReflexDelay..MaxReflexDelay
              /\ gameLoop'.isInTransition
       /\ (TransitionCompleted /\ gameLoop.reflexMode) => RevealScheduled
       /\ (TransitionCompleted /\ ~gameLoop.reflexMode) =>
              /\ ~gameLoop'.isInTransition
              /\ timers' = timers
       /\ (TargetRevealed /\ gameLoop.reflexMode) =>
              \E i \in DOMAIN timers :
                  /\ timers' = RemoveAt(timers, i)
                  /\ timers[i].session = caller.starts
                  /\ timers[i].due <= now
       /\ \A i \in DOMAIN timers :
              (/\ FireTimer(i)
               /\ timers[i].session = caller.starts
               /\ gameLoop.isRunning
               /\ gameLoop.isInTransition) => ~gameLoop'.isInTransition]_vars

(* C26: in reflex mode a completed transition is followed by a reveal also  *)
(* when the session is paused during the reflex delay and resumed: the      *)
(* sequencer is never running in a completed transition whose reveal is no  *)
(* longer scheduled                                                         *)
ReflexRevealPending ==
    (gameLoop.isRunning /\ gameLoop.isInTransition /\ gameLoop.transitionComplete)
        => \E i \in DOMAIN timers : timers[i].session = caller.starts

(* C27: a tick that starts in the transition phase leaves gameTime as it   *)
(* is, a tick that starts in the hold phase adds the time since the frame   *)
(* before it, and time spent paused is not added: a resume restarts the     *)
(* frame clock, and no step but a tick or a new session changes gameTime    *)
GameTimeAccounting ==
    [][/\ (frameQueue # <<>> /\ gameLoop.isRunning) =>
              gameLoop'.gameTime =
                  IF gameLoop.isInTransition
                  THEN gameLoop.gameTime
                  ELSE gameLoop.gameTime + (now - gameLoop.lastFrameTime)
       /\ (frameQueue # <<>> /\ ~gameLoop.isRunning) =>
              gameLoop'.gameTime = gameLoop.gameTime
       /\ (frameQueue = <<>> /\ caller'.starts = caller.starts) =>
              gameLoop'.gameTime = gameLoop.gameTime
       /\ (Paused /\ caller'.lastCall = "resume") =>
              gameLoop'.lastFrameTime = now]_vars

\* C27 witness: a session that was paused and resumed has counted hold time
\* and is in the reflex wait of its next transition
GameTimeCountedAcrossPause ==
    /\ gameLoop.gameTime > 0
    /\ caller.lastCall = "resume"
    /\ gameLoop.isRunning
    /\ gameLoop.isInTransition
    /\ gameLoop.targetsCompleted > 0

(* C28: each completion appends one record, whose targetValue is the       *)
(* target that was shown, whose reactionTime is the start of the last       *)
(* uninterrupted run in range minus the reveal time, and whose              *)
(* completionTime is the time of the completion minus the reveal time       *)
TargetRecordContents ==
    [][/\ TargetCompleted =>
              LET record == gameLoop'.targets[Len(gameLoop'.targets)] IN
              /\ SubSeq(gameLoop'.targets, 1, Len(gameLoop.targets)) = gameLoop.targets
              /\ gameLoop'.targetsCompleted = gameLoop.targetsCompleted + 1
              /\ record.targetValue = gameLoop.currentTarget
              /\ gameLoop.currentTarget # NULL
              /\ obs'.holdStreak # NULL
              /\ obs.revealedAt # NULL
              /\ record.reactionTime = obs'.holdStreak - obs.revealedAt
              /\ record.completionTime = now - obs.revealedAt
       /\ caller'.starts = caller.starts =>
              \/ gameLoop'.targets = gameLoop.targets
              \/ TargetCompleted]_vars

\* C28 witness: a record just appended, for a target completed after the
\* position left its range and entered it again
RecordAfterExcursion ==
    /\ gameLoop.validDurationMet
    /\ obs.holdBroken
    /\ Len(gameLoop.targets) > 0
    /\ gameLoop.targets[Len(gameLoop.targets)].reactionTime > 0
    /\ gameLoop.targets[Len(gameLoop.targets)].reactionTime = obs.holdStreak - obs.revealedAt

(* C29: every record has a reactionTime of 0 or more and a completionTime  *)
(* of at least reactionTime plus validDuration, whatever the positions,     *)
(* repeated entries into and exits from the range included                  *)
RecordTimingInvariant ==
    \A i \in DOMAIN gameLoop.targets :
        /\ 0 <= gameLoop.targets[i].reactionTime
        /\ gameLoop.targets[i].reactionTime + config.valid_duration
              <= gameLoop.targets[i].completionTime

\* C29 witness: a record of a target whose range was entered, left and entered
\* again, completed as soon as validDuration allows
RecordOfReenteredRange ==
    /\ gameLoop.validDurationMet
    /\ obs.holdBroken
    /\ Len(gameLoop.targets) > 0
    /\ LET record == gameLoop.targets[Len(gameLoop.targets)] IN
          /\ record.reactionTime > 1
          /\ record.completionTime = record.reactionTime + config.valid_duration

(* C30: after startGame, whatever the state before it (never started,      *)
(* running, paused, stopped, completed), the sequencer is running in the    *)
(* transition phase with targetsCompleted 0, no record, gameTime 0, no      *)
(* current target, no condition timer and transitionComplete false          *)
StartResetsSequencer ==
    [][caller'.starts = caller.starts + 1 =>
          /\ gameLoop'.isRunning
          /\ gameLoop'.isInTransition
          /\ gameLoop'.targetsCompleted = 0
          /\ gameLoop'.targets = <<>>
          /\ gameLoop'.gameTime = 0
          /\ gameLoop'.currentTarget = NULL
          /\ gameLoop'.transitionConditionMetTime = NULL
          /\ ~gameLoop'.transitionComplete]_vars

\* C30 witness: a session just started in place of one that was paused after
\* it had completed a target
StartedOverPausedSession ==
    /\ caller.starts = 2
    /\ caller.pauses = 1
    /\ caller.lastCall = "start"
    /\ gameLoop.lastFrameTime = now
    /\ gameLoop.validDurationMet
    /\ gameLoop.isInTargetRange
    /\ gameLoop.targets = <<>>

\* C31 (as claimed): at most one update callback of the game loop is pending
\* at any time, and none is pending while the loop is not running.
SingleTickLoop ==
    /\ Len(rafQueue) + Len(frameQueue) <= 1
    /\ ~gameLoop.isRunning => rafQueue = <<>> /\ frameQueue = <<>>

\* C32: every value a reveal assigns to currentTarget is an integer from
\* min_target_percentage to max_target_percentage, and some value of
\* Math.random() gives each of the two ends.
RevealedTargetInRange ==
    /\ gameLoop.currentTarget # NULL =>
          gameLoop.currentTarget \in MinTargetPercentage..MaxTargetPercentage
    /\ \E random \in 0..99 : generateRandomTarget(random) = MinTargetPercentage
    /\ \E random \in 0..99 : generateRandomTarget(random) = MaxTargetPercentage

\* C32 witness: a reveal has shown the largest target and the hold on it is
\* under way
LargestTargetRevealed ==
    /\ gameLoop.isRunning
    /\ ~gameLoop.isInTransition
    /\ gameLoop.currentTarget = MaxTargetPercentage

\* C33: markTarget sets targetValue and isTransition of the most recent
\* min(5, length) buffered samples and changes nothing else; markInRange sets
\* isInTarget of the most recent sample and changes nothing else; neither
\* changes the buffer length, a sample's time or position, or an older
\* sample, and both do nothing when the recorder is not recording or the
\* buffer is empty.
AnnotationFrame ==
    [][call' # call =>
        LET b == telemetry.buffer
            marked == IF ~telemetry.isRecording THEN 0
                      ELSE IF call'.fn = "markTarget" THEN Min(5, Len(b))
                      ELSE Min(1, Len(b))
        IN  /\ telemetry' = [telemetry EXCEPT !.buffer = telemetry'.buffer]
            /\ Len(telemetry'.buffer) = Len(b)
            /\ \A i \in 1..Len(b) :
                  telemetry'.buffer[i] =
                      IF i <= Len(b) - marked THEN b[i]
                      ELSE IF call'.fn = "markTarget"
                      THEN [b[i] EXCEPT !.targetValue = call'.targetValue,
                                        !.isTransition = call'.isTransition]
                      ELSE [b[i] EXCEPT !.isInTarget = call'.inRange]]_vars

\* C33 witness: markTarget has annotated the five most recent of six
\* buffered samples, and the oldest is as it was recorded
OldestSampleNotMarked ==
    /\ call # NoCall
    /\ call.fn = "markTarget"
    /\ call.targetValue = 50
    /\ telemetry.isRecording
    /\ Len(telemetry.buffer) = 6
    /\ telemetry.buffer[2].targetValue = 50
    /\ telemetry.buffer[1].targetValue = NULL

\* C34 (as claimed): in every state of a session isInTargetRange is false
\* whenever isInTransition is true.
PhaseFlagsConsistent == gameLoop.isInTransition => ~gameLoop.isInTargetRange

\* C35: with n the number of samples recorded since startRecording, the
\* statistics hold totalSamples = n (evicted samples included) and, for
\* n >= 1, the smallest and the largest recorded position and their
\* arithmetic mean; after startRecording and before the first sample they are
\* the reset values, and a startRecording while recording leaves buffer and
\* statistics as they are.
RunningStatistics ==
    LET samples == obs.samples
        n == Len(samples)
        stats == telemetry.stats
    IN  /\ stats.totalSamples = n
        /\ Len(telemetry.buffer) = Min(n, telemetry.bufferSize)
        /\ n = 0 => stats.min = 100 /\ stats.max = 0 /\ stats.avg.num = 0
        /\ n >= 1 =>
              /\ \E i \in 1..n : stats.min = samples[i].position
              /\ \A i \in 1..n : stats.min <= samples[i].position
              /\ \E i \in 1..n : stats.max = samples[i].position
              /\ \A i \in 1..n : stats.max >= samples[i].position
              /\ stats.avg.num * n = Sum([i \in 1..n |-> samples[i].position]) * stats.avg.den

\* C35 witness: more samples than the buffer holds were recorded, with
\* different positions, and the mean is none of them
StatisticsOverEvictedSamples ==
    /\ telemetry.stats.totalSamples > telemetry.bufferSize
    /\ telemetry.stats.min = 10
    /\ telemetry.stats.max = 100
    /\ telemetry.stats.avg.num * 2 = 105 * telemetry.stats.avg.den

\* C36: in every state the sampling interval is active iff isRecording is
\* true, and at most one sampling interval exists, whichever of the game
\* loop, the game screen and the keyboard input starts or stops the recorder.
RecorderTimerMatchesFlag ==
    /\ telemetry.intervals <= 1
    /\ telemetry.isRecording <=> telemetry.intervals = 1
    /\ telemetry.isRecording <=> telemetry.recordingInterval

\* C36 witness: the keyboard input has started the recorder on the game
\* screen of a session whose start threw
KeyboardStartedRecorder ==
    /\ ~gameLoop.isRunning
    /\ caller.lastCall = "threw"
    /\ input.keyboardEnabled
    /\ telemetry.isRecording
    /\ telemetry.intervals = 1

\* C37 (as claimed): avgPrecision is the mean over the targets of the mean
\* absolute deviation of the samples recorded while the target was held, and
\* the record's accuracy only when there is no such sample.  Stated for the
\* one target of a single-target session, whose in-hold samples are the
\* samples recorded outside the transition.
PrecisionFromHoldSamples ==
    call.fn = "calculateFinalScores" =>
        LET target == call.sessionData.targets[1]
            IsInHold(sample) == ~sample.isTransition
            held == SelectSeq(obs.samples, IsInHold)
            totalDeviation == Sum([i \in DOMAIN held |->
                                      Abs(held[i].position - target.targetValue)])
        IN  call.scores.avgPrecision =
                IF Len(held) = 0 THEN Fixed(target.accuracy)
                ELSE (totalDeviation * 100) \div Len(held)

\* C38 (as claimed): for a completed session, overallScore = round(0.4 *
\* max(0, 100 - 10 * secondsPerTarget) + 0.3 * max(0, 100 - 100 *
\* avgReactionTime in seconds) + 0.2 * max(0, 100 - 2 * avgPrecision) + 0.1 *
\* consistencyScore), with avgReactionTime the mean of the records' reaction
\* times converted from milliseconds to seconds.
OverallScoreFormula ==
    call.fn = "calculateFinalScores" =>
        LET records == call.sessionData.targets
            totalTime == Div(Fixed(call.sessionData.endTime - call.sessionData.startTime),
                             Fixed(1000))
            secondsPerTarget == Div(totalTime, Fixed(Len(records)))
            meanReactionTime ==
                calculateAverage([i \in DOMAIN records |-> Fixed(records[i].reactionTime)])
            reactionSeconds == Div(meanReactionTime, Fixed(1000))
            timeScore == MathMax(0, Fixed(100) - Mul(Fixed(10), secondsPerTarget))
            reactionScore == MathMax(0, Fixed(100) - Mul(Fixed(100), reactionSeconds))
            precisionScore == MathMax(0, Fixed(100) - Mul(Fixed(2), call.scores.avgPrecision))
        IN  call.scores.overallScore =
                MathRound(Mul(40, timeScore) + Mul(30, reactionScore)
                          + Mul(20, precisionScore) + Mul(10, call.scores.consistencyScore))

\* C39 (as claimed): whenever inputType is 'gamepad' and an active gamepad is
\* set, index 0 included, an update of the input loop reads the selected
\* axis of that gamepad and refreshes the pedal position from it.  Stated
\* for the updates at which the device reports the selected axis.
ActiveGamepadPolled ==
    [][\A axes \in obs'.polled :
          /\ obs'.inputOps = obs.inputOps + 1
          /\ input.inputType = "gamepad"
          /\ input.activeGamepad # NULL
          /\ input.pedalAxis + 1 \in DOMAIN axes
          => LET raw == axes[input.pedalAxis + 1]
                 normalized == IF input.pedalReversed THEN (1 - raw) * 50
                               ELSE (raw + 1) * 50
                 position == Max(0, Min(100, normalized))
                 mixed == Plus(input.prevPedalPosition, Times(4, position))
             IN  /\ input'.rawPedalValue = raw
                 /\ input'.currentPedalPosition =
                        IF mixed = NaN THEN NaN ELSE mixed \div 5]_vars

\* C40: after any sequence of gamepad connections and disconnections,
\* gamepad selections and enableKeyboardInput and enableGamepadInput calls,
\* isConnected is true exactly when inputType is not 'none', and an
\* inputType of 'gamepad' comes with an active gamepad.
StatusFlagConsistent ==
    /\ input.isConnected <=> input.inputType # "none"
    /\ input.inputType = "gamepad" => input.activeGamepad # NULL

\* The keyboard was enabled and then the gamepad, with no gamepad present:
\* the input type is still 'keyboard' and the flag is set.
KeyboardTypeAfterGamepadEnabled ==
    /\ input.inputType = "keyboard"
    /\ ~input.keyboardEnabled
    /\ input.activeGamepad = NULL
    /\ input.isConnected

====
